---------------------------- MODULE Spec2Model ----------------------------
(***************************************************************************)
(* A model of the OI_Script collectors: the large-trade store and rate     *)
(* limiter of src/test.py, the per-pair collection of src/api/binance.py   *)
(* and src/api/bybit.py, and the batch collection and snapshot writing of  *)
(* src/main.py.  Each part has its own specification over the shared        *)
(* variables; a part's variables stay at their initial value under the     *)
(* other parts' specifications.                                            *)
(***************************************************************************)
EXTENDS Integers, Sequences, FiniteSets, TLC

VARIABLES
    \* ---- DatabaseManager.save_trades (src/test.py) ----
    large_trades,     \* rows of table large_trades, a set of [id, symbol]
    trades,           \* the argument T of save_trades
    dbpc,             \* position of the caller: "select", "insert", "done"
    callNo,           \* which of the two consecutive calls is running
    existing_ids,     \* result of the SELECT of the running call
    ret,              \* ret[k]: what call k returned, <<new, duplicates>>
    rowsAfterFirst,   \* large_trades as the first call left it
    \* ---- RateLimiter (src/test.py) ----
    now,              \* time.time(), in seconds
    requests,         \* self.requests: the log, a sequence of [ts, w]
    lock,             \* self.lock: the task holding it, or NoTask
    rlpc,             \* rlpc[t]: where task t is in acquire
    weight,           \* weight[t]: the argument of task t's acquire
    current_time,     \* current_time[t]: task t's local current_time
    current_weight,   \* current_weight[t]: task t's local current_weight
    wake,             \* wake[t]: when task t's asyncio.sleep is over
    admitted,         \* the acquire calls that returned less than Window ago,
                      \* each with the time it returned at
    \* ---- collect_pair_data (src/api/binance.py, src/api/bybit.py) ----
    exchange,         \* "Binance" or "Bybit": whose collect_pair_data runs
    symbol,           \* the pair symbol it is called with
    fetched,          \* the sub-fetches of the gather that are over
    results,          \* results[k]: what sub-fetch k returned
    pairpc,           \* "gather" until the gather is over, then "returned"
    pair_data,        \* the dict collect_pair_data returned
    \* ---- the batch loops (src/main.py collect_exchange_data,
    \*      src/test.py run_monitoring_cycle) ----
    driver,           \* "Binance", "Bybit" or "Monitor": whose loop runs
    npairs,           \* len(tasks): the pairs that were discovered
    batch_start,      \* the loop variable i, counted from 1
    task_state,       \* task_state[k]: "created", "done" or "cancelled"
    task_result,      \* task_result[k]: what task k raised or returned
    all_data,         \* all_data (main.py), all_large_trades (test.py)
    error_logs,       \* lines logged for results that are exceptions
    totals,           \* <<total_new, total_duplicates>> of the monitor
    collpc,           \* "gather", "sleep", "returned" or "aborted"
    pacing,           \* the seconds of the pacing sleep in progress, 0 when none is
    \* ---- collect_cmc_data and process_and_save_data (src/main.py),
    \*      the tables of src/db/database.py ----
    exchange_data,    \* the records process_and_save_data is called with
    cmc_btc_price,    \* what get_btc_price returned to collect_cmc_data
    cmc_data,         \* the dict collect_cmc_data returned
    data_index,       \* the record the for loop is at, counted from 1
    saved_count,      \* saved_count of process_and_save_data
    error_count,      \* error_count of process_and_save_data
    tokens,           \* table tokens: row k is the symbol with id k
    futures_pairs,    \* table futures_pairs: row k has id k
    futures_data,     \* table futures_data, in the order of the inserts
    savepc,           \* "cmc", "loop" or "done"
    save_warned,      \* the warnings logged in the loop of process_and_save_data
    \* ---- extract_token_symbol (src/utils/converters.py) ----
    arg_pair_symbol,  \* the argument of extract_token_symbol
    extracted,        \* what the call returned
    extractpc,        \* "call" until the call has returned, then "returned"
    \* ---- TradingDataAnalyzer.filter_trading_pairs (src/test.py) ----
    exchange_info,    \* exchange_info['symbols'], the argument
    tickers,          \* the 24h tickers, the argument
    quote_prices_usd, \* self.quote_prices_usd of the analyzer
    filtered_pairs,   \* what filter_trading_pairs returned
    filterpc,         \* "call" until the call has returned, then "returned"
    \* ---- one API call of a client: BinanceClient.get_recent_trades
    \*      (src/test.py) or an accessor over _make_request (src/api) ----
    client,           \* whose call it is
    httppc,           \* "attempt", "send" or "done"
    retry_count,      \* the attempts of the call that are over
    acquired,         \* the weight acquired for the coming request, else 0
    slept,            \* time slept since the last response, in 0.2 s
    last_status,      \* the last response, "" before the first
    cooldown,         \* what the last 429 response advertised, or None
    http_log,         \* the HTTP requests sent, in order
    call_result,      \* "value", "absent" or "raised" once the call is over
    \* ---- Database.get_or_create_token and get_or_create_futures_pair,
    \*      statement by statement (src/db/database.py) ----
    goc_fn,           \* "token" or "pair": which of the two is called
    unique_keys,      \* whether the looked-up columns have a unique key
    gocpc,            \* gocpc[t]: "idle", "select" or "insert"
    goc_key,          \* goc_key[t]: the arguments of task t's call
    goc_returns,      \* the calls that are over: key, id, whether it raised
    calls_started,    \* the calls made so far
    overlapped,        \* whether two calls have been running at the same time
    \* ---- FuturesDataCollector.run and main (src/main.py) ----
    config_valid,     \* whether Config.validate finds every required parameter
    db_up,            \* whether aiomysql.create_pool succeeds
    runpc,            \* "initialize", "futures", "spot", "cmc", "save", "cleanup", "exited"
    db_connects,      \* the calls of aiomysql.create_pool made so far
    pool,             \* whether self.db.pool is an open pool
    requests_sent,    \* the providers a request has been sent to
    ex_state,         \* ex_state[ex]: "created", "collecting", "failed" or "done"
    ex_result,        \* ex_result[ex]: what collect_exchange_data(ex) ended with
    api_errors,       \* table api_errors: the exchange column of its rows, in order
    all_futures_data, \* all_futures_data of run
    run_saved,        \* the records process_and_save_data has written
    run_failed,       \* error_count of process_and_save_data
    run_error,        \* the exception that left run, "" when none did
    exit_code,         \* the exit status of the process, None while it runs
    \* ---- TradingDataAnalyzer.find_large_trades (src/test.py) ----
    trades_data,      \* trades_data, the raw trades of the API answer
    pair_quote_price_usd,\* pair_info.quote_price_usd
    found_trades,     \* what find_large_trades returned
    findpc,           \* "call" until the call has returned, then "returned"
    \* ---- Database.get_cached_cmc_data and save_cmc_cache (src/db/database.py) ----
    cache_now,        \* NOW() of the database, in minutes
    cmc_cache,        \* table cmc_cache: its rows, symbol and last_updated
    last_saved,       \* last_saved[s]: when save_cmc_cache was last called for s, or None
    cache_get,        \* the last get_cached_cmc_data call: its symbol, its time, its result
                      \* and when the symbol had last been saved
    \* ---- RateLimiter.acquire, the time of a call's first pass ----
    first_time,       \* first_time[t]: current_time of the first pass of task t's
                      \* call, None between calls; <<>> when it is not recorded
    \* ---- the concurrency semaphore of a client: _make_request (src/api), process_pair (src/test.py) ----
    sem_client,       \* the client whose semaphore it is
    sem_value,        \* the free slots of the semaphore
    sempc,            \* sempc[t]: "enter", "request", "cooldown", "backoff" or "done"
    sem_attempts,      \* sem_attempts[t]: the attempts of task t's call that are over
    \* ---- BybitAPI.get_instruments_info (src/api/bybit.py) ----
    all_instruments,  \* all_instruments
    cursor,           \* cursor, NoneStr for None
    page_sent,        \* params.get('cursor') of the last request, NoneStr when the key is absent
    pages,            \* the pages received so far, in order: list and nextPageCursor
    pagepc,           \* "loop", "request", "returned" or "raised"
    page_ret,          \* what the call returned, <<>> until it has
    \* ---- main: the monitoring cycles (src/test.py) ----
    cycle_count,       \* cycle_count, 0 when the cycles are not counted
    \* ---- CoinMarketCapAPI.get_tokens_data, get_quotes_latest (src/api/coinmarketcap.py) ----
    symbols_arg,      \* symbols, the list get_tokens_data is called with
    unique_symbols,   \* unique_symbols, in the order list(set(...)) gave them
    chunk_no,         \* the chunks of get_quotes_latest that have been fetched
    quotes_all,       \* all_data of get_quotes_latest
    chunkpc,          \* "call", "loop", "returned" or "saved"
    tokens_result,    \* what get_tokens_data returned
    chunk_failed,     \* whether a chunk request raised
    chunk_row         \* the snapshot row built from the result: <<>> or <<row>>

dbVars == <<large_trades, trades, dbpc, callNo, existing_ids, ret, rowsAfterFirst>>

rlVars == <<now, requests, lock, rlpc, weight, current_time, current_weight, wake,
            admitted>>

pairVars == <<exchange, symbol, fetched, results, pairpc, pair_data>>

collVars == <<driver, npairs, batch_start, task_state, task_result, all_data,
              error_logs, totals, collpc, pacing>>

saveVars == <<exchange_data, cmc_btc_price, cmc_data, data_index, saved_count,
              error_count, tokens, futures_pairs, futures_data, savepc,
              save_warned>>

extractVars == <<arg_pair_symbol, extracted, extractpc>>

filterVars == <<exchange_info, tickers, quote_prices_usd, filtered_pairs, filterpc>>

httpVars == <<client, httppc, retry_count, acquired, slept, last_status, cooldown, http_log, call_result>>

gocVars == <<goc_fn, unique_keys, gocpc, goc_key, goc_returns, calls_started, overlapped>>

runVars == <<config_valid, db_up, runpc, db_connects, pool, requests_sent, ex_state, ex_result, api_errors, all_futures_data, run_saved, run_failed, run_error, exit_code>>

findVars == <<trades_data, pair_quote_price_usd, found_trades, findpc>>

cacheVars == <<cache_now, cmc_cache, last_saved, cache_get>>

waitVars == <<first_time>>

semVars == <<sem_client, sem_value, sempc, sem_attempts>>

pageVars == <<all_instruments, cursor, page_sent, pages, pagepc, page_ret>>

cycleVars == <<cycle_count>>

chunkVars == <<symbols_arg, unique_symbols, chunk_no, quotes_all, chunkpc, tokens_result, chunk_failed, chunk_row>>

vars == <<dbVars, rlVars, pairVars, collVars, saveVars, extractVars, filterVars, httpVars, gocVars, runVars, findVars, cacheVars, waitVars, semVars, pageVars, cycleVars, chunkVars>>

\* what the actions of one part leave alone
notDb == <<rlVars, pairVars, collVars, saveVars,
             extractVars,
             filterVars,
             httpVars,
             gocVars,
             runVars,
             findVars,
             cacheVars,
             waitVars,
             semVars,
             pageVars,
             cycleVars,
             chunkVars>>
notRl == <<dbVars, pairVars, collVars, saveVars,
             extractVars,
             filterVars,
             httpVars,
             gocVars,
             runVars,
             findVars,
             cacheVars,
             semVars,
             pageVars,
             cycleVars,
             chunkVars>>
notPair == <<dbVars, rlVars, collVars, saveVars,
             extractVars,
             filterVars,
             httpVars,
             gocVars,
             runVars,
             findVars,
             cacheVars,
             waitVars,
             semVars,
             pageVars,
             cycleVars,
             chunkVars>>
notColl == <<trades, dbpc, callNo, existing_ids, ret, rowsAfterFirst, rlVars, pairVars,
             saveVars,
             extractVars,
             filterVars,
             httpVars,
             gocVars,
             runVars,
             findVars,
             cacheVars,
             waitVars,
             semVars,
             pageVars,
             cycleVars,
             chunkVars>>
notSave == <<dbVars, rlVars, pairVars, collVars,
             extractVars,
             filterVars,
             httpVars,
             gocVars,
             runVars,
             findVars,
             cacheVars,
             waitVars,
             semVars,
             pageVars,
             cycleVars,
             chunkVars>>
notExtract == <<dbVars, rlVars, pairVars, collVars, saveVars,
             filterVars,
             httpVars,
             gocVars,
             runVars,
             findVars,
             cacheVars,
             waitVars,
             semVars,
             pageVars,
             cycleVars,
             chunkVars>>
notFilter == <<dbVars, rlVars, pairVars, collVars, saveVars, extractVars,
             httpVars,
             gocVars,
             runVars,
             findVars,
             cacheVars,
             waitVars,
             semVars,
             pageVars,
             cycleVars,
             chunkVars>>
notHttp == <<dbVars, rlVars, pairVars, collVars, saveVars, extractVars, filterVars,
             gocVars,
             runVars,
             findVars,
             cacheVars,
             waitVars,
             semVars,
             pageVars,
             cycleVars,
             chunkVars>>
notGoc == <<dbVars, rlVars, pairVars, collVars, saveVars, extractVars, filterVars, httpVars,
             runVars,
             findVars,
             cacheVars,
             waitVars,
             semVars,
             pageVars,
             cycleVars,
             chunkVars>>
notRun == <<dbVars, rlVars, pairVars, collVars, saveVars, extractVars, filterVars, httpVars, gocVars,
             findVars,
             cacheVars,
             waitVars,
             semVars,
             pageVars,
             cycleVars,
             chunkVars>>
notFind == <<dbVars, rlVars, pairVars, collVars, saveVars, extractVars, filterVars, httpVars, gocVars, runVars,
             cacheVars,
             waitVars,
             semVars,
             pageVars,
             cycleVars,
             chunkVars>>
notCache == <<dbVars, rlVars, pairVars, collVars, saveVars, extractVars, filterVars, httpVars, gocVars, runVars, findVars,
             waitVars,
             semVars,
             pageVars,
             cycleVars,
             chunkVars>>
notSem == <<dbVars, rlVars, pairVars, collVars, saveVars, extractVars, filterVars, httpVars, gocVars, runVars, findVars, cacheVars, waitVars,
             pageVars,
             cycleVars,
             chunkVars>>
notPage == <<dbVars, rlVars, pairVars, collVars, saveVars, extractVars, filterVars, httpVars, gocVars, runVars, findVars, cacheVars, waitVars, semVars,
             cycleVars,
             chunkVars>>
notCycle == <<dbVars, pairVars, collVars, saveVars, extractVars, filterVars, httpVars, gocVars, runVars, findVars, cacheVars, waitVars, semVars, pageVars,
             chunkVars>>
notChunk == <<dbVars, rlVars, pairVars, collVars, saveVars, extractVars, filterVars, httpVars, gocVars, runVars, findVars, cacheVars, waitVars, semVars, pageVars, cycleVars>>

\* Python's None where a number is expected; the numbers of the model are >= 0
None == -1
\* what ret[k] holds before call k has returned
NoReturn == <<None, None>>

(***************************************************************************)
(*                        Bounds and constants                             *)
(***************************************************************************)
MaxTradeId == 2
MaxTrades == 2

NTasks == 2
Budget == 3        \* max_weight_per_minute of the limiter under test
TickStep == 20     \* seconds the clock advances by in one step
MaxTime == 80      \* the clock stops advancing here
Window == 60       \* the trailing window of acquire, in seconds
Margin == 1        \* the margin added to the wait

MaxAmount == 1     \* amounts, prices and rates are 0..MaxAmount
NPairs == 3        \* at most this many pairs are discovered
BatchSize == 2     \* batch_size, scaled down from 50 and 30
NRecords == 2      \* at most this many records are processed and saved
MaxPieces == 3     \* a pair symbol is made of at most this many pieces
MaxSymbols == 1    \* exchange_info lists at most this many symbols
MaxTickers == 2    \* at most this many 24h tickers are returned
MaxRetryAfter == 1 \* a Retry-After header is 1..MaxRetryAfter seconds
MaxCalls == 3      \* get_or_create is called at most this many times
MaxRunRecords == 1
MaxTradesData == 2
CacheTickStep == 5
MaxCacheTime == 15
SemLimit == 2
NSemTasks == 3
MaxPages == 3
MaxCycles == 2
ChunkSize == 2      \* the chunks of get_quotes_latest, scaled down from 200
MaxChunkSymbols == 3
MaxInstruments == 2

Tasks == 1..NTasks
NoTask == 0
Weights == {1, Budget - 1, Budget, Budget + 1}

(***************************************************************************)
(* The value each part's variables have while another part is running.     *)
(***************************************************************************)
DbIdle ==
    /\ large_trades = {}
    /\ trades = <<>>
    /\ dbpc = "done"
    /\ callNo = 2
    /\ existing_ids = {}
    /\ ret = <<NoReturn, NoReturn>>
    /\ rowsAfterFirst = {}

RLIdle ==
    /\ now = 0
    /\ requests = <<>>
    /\ lock = NoTask
    /\ rlpc = [t \in Tasks |-> "idle"]
    /\ weight = [t \in Tasks |-> 0]
    /\ current_time = [t \in Tasks |-> 0]
    /\ current_weight = [t \in Tasks |-> 0]
    /\ wake = [t \in Tasks |-> 0]
    /\ admitted = <<>>

PairIdle ==
    /\ exchange = ""
    /\ symbol = <<>>
    /\ fetched = {}
    /\ results = <<>>
    /\ pairpc = "idle"
    /\ pair_data = <<>>

CollIdle ==
    /\ driver = ""
    /\ npairs = 0
    /\ batch_start = 1
    /\ task_state = <<>>
    /\ task_result = <<>>
    /\ all_data = <<>>
    /\ error_logs = 0
    /\ totals = <<0, 0>>
    /\ collpc = "idle"
    /\ pacing = 0

\* an empty dict, and a dict that holds no '_btc_price'
EmptyCmcData == [quotes |-> <<>>, btc_price |-> <<>>]

SaveIdle ==
    /\ exchange_data = <<>>
    /\ cmc_btc_price = None
    /\ cmc_data = EmptyCmcData
    /\ data_index = 1
    /\ saved_count = 0
    /\ error_count = 0
    /\ tokens = <<>>
    /\ futures_pairs = <<>>
    /\ futures_data = <<>>
    /\ savepc = "idle"
    /\ save_warned = 0

ExtractIdle ==
    /\ arg_pair_symbol = <<>>
    /\ extracted = <<>>
    /\ extractpc = "idle"

FilterIdle ==
    /\ exchange_info = <<>>
    /\ tickers = <<>>
    /\ quote_prices_usd = <<>>
    /\ filtered_pairs = <<>>
    /\ filterpc = "idle"

HttpIdle ==
    /\ client = ""
    /\ httppc = "idle"
    /\ retry_count = 0
    /\ acquired = 0
    /\ slept = 0
    /\ last_status = ""
    /\ cooldown = None
    /\ http_log = <<>>
    /\ call_result = ""

GocIdle ==
    /\ goc_fn = ""
    /\ unique_keys = FALSE
    /\ gocpc = <<>>
    /\ goc_key = <<>>
    /\ goc_returns = <<>>
    /\ calls_started = 0
    /\ overlapped = FALSE

RunIdle ==
    /\ config_valid = FALSE
    /\ db_up = FALSE
    /\ runpc = ""
    /\ db_connects = 0
    /\ pool = FALSE
    /\ requests_sent = {}
    /\ ex_state = <<>>
    /\ ex_result = <<>>
    /\ api_errors = <<>>
    /\ all_futures_data = <<>>
    /\ run_saved = <<>>
    /\ run_failed = 0
    /\ run_error = ""
    /\ exit_code = None

FindIdle ==
    /\ trades_data = <<>>
    /\ pair_quote_price_usd = 0
    /\ found_trades = <<>>
    /\ findpc = ""

CacheIdle ==
    /\ cache_now = 0
    /\ cmc_cache = {}
    /\ last_saved = <<>>
    /\ cache_get = <<>>

WaitIdle ==
    first_time = <<>>

SemIdle ==
    /\ sem_client = ""
    /\ sem_value = 0
    /\ sempc = <<>>
    /\ sem_attempts = <<>>

PageIdle ==
    /\ all_instruments = <<>>
    /\ cursor = <<>>
    /\ page_sent = <<>>
    /\ pages = <<>>
    /\ pagepc = ""
    /\ page_ret = <<>>

CycleIdle ==
    cycle_count = 0

ChunkIdle ==
    /\ symbols_arg = <<>>
    /\ unique_symbols = <<>>
    /\ chunk_no = 0
    /\ quotes_all = <<>>
    /\ chunkpc = ""
    /\ tokens_result = <<>>
    /\ chunk_failed = FALSE
    /\ chunk_row = <<>>

(***************************************************************************)
(*                            RateLimiter                                  *)
(***************************************************************************)
RECURSIVE SumWeights(_)
SumWeights(log) ==
    IF log = <<>> THEN 0 ELSE Head(log).w + SumWeights(Tail(log))

\* [(ts, w) for ts, w in self.requests if current_time - ts < 60]
Prune(log, ct) == SelectSeq(log, LAMBDA e : ct - e.ts < Window)

\* the budget test that forgets the weight being asked for
FitsWithoutNewWeight(cw, w) == cw <= Budget

\* if current_weight + weight <= self.max_weight_per_minute
Fits(cw, w) == cw + w <= Budget

\* a lock that never makes anybody wait
LockAlwaysFree == TRUE

\* async with self.lock: the lock can be taken when nobody holds it
LockAvailable == lock = NoTask

RECURSIVE MinTs(_)
MinTs(log) ==
    IF Len(log) = 1 THEN Head(log).ts
    ELSE LET m == MinTs(Tail(log))
         IN IF Head(log).ts < m THEN Head(log).ts ELSE m

\* wait_time; the log was pruned at ct, so ct - oldest < 60 and the value is
\* above 1: the lower limit 0.1 of max(0.1, ...) never applies.
WaitTime(log, ct) ==
    IF log # <<>> THEN Window - (ct - MinTs(log)) + Margin ELSE 1

\* first_time after the lock is taken: the first pass of a call records its
\* current_time, when the times are recorded at all
FirstPass(t) ==
    IF first_time = <<>> THEN first_time
    ELSE [first_time EXCEPT ![t] = IF @ = None THEN now ELSE @]

\* first_time after acquire has returned
CallOver(t) ==
    IF first_time = <<>> THEN first_time ELSE [first_time EXCEPT ![t] = None]

InitLimiter ==
    /\ ChunkIdle
    /\ CycleIdle
    /\ PageIdle
    /\ SemIdle
    /\ WaitIdle
    /\ CacheIdle
    /\ FindIdle
    /\ RunIdle
    /\ GocIdle
    /\ RLIdle /\ DbIdle /\ PairIdle /\ CollIdle /\ SaveIdle /\ ExtractIdle
    /\ FilterIdle /\ HttpIdle

\* a task calls acquire(w)
RLCall(t, w) ==
    /\ rlpc[t] = "idle"
    /\ rlpc' = [rlpc EXCEPT ![t] = "lock"]
    /\ weight' = [weight EXCEPT ![t] = w]
    /\ UNCHANGED <<now, requests, lock, current_time, current_weight, wake, admitted>>
    /\ UNCHANGED first_time
    /\ UNCHANGED notRl

\* async with self.lock: ; current_time = time.time()
RLLock(t) ==
    /\ rlpc[t] = "lock"
    /\ LockAvailable
    /\ lock' = t
    /\ current_time' = [current_time EXCEPT ![t] = now]
    /\ rlpc' = [rlpc EXCEPT ![t] = "prune"]
    /\ UNCHANGED <<now, requests, weight, current_weight, wake, admitted>>
    /\ first_time' = FirstPass(t)
    /\ UNCHANGED notRl

\* self.requests = [...] ; current_weight = sum(...)
RLPrune(t) ==
    /\ rlpc[t] = "prune"
    /\ requests' = Prune(requests, current_time[t])
    /\ current_weight' = [current_weight EXCEPT ![t] = SumWeights(requests')]
    /\ rlpc' = [rlpc EXCEPT ![t] = "check"]
    /\ UNCHANGED <<now, lock, weight, current_time, wake, admitted>>
    /\ UNCHANGED first_time
    /\ UNCHANGED notRl

\* the request fits: append it and return, which leaves the lock
RLAdmit(t) ==
    /\ rlpc[t] = "check"
    /\ Fits(current_weight[t], weight[t])
    /\ requests' = Append(requests, [ts |-> current_time[t], w |-> weight[t]])
    /\ admitted' = Append(admitted, [ts |-> now, w |-> weight[t]])
    /\ lock' = NoTask
    /\ rlpc' = [rlpc EXCEPT ![t] = "idle"]
    /\ weight' = [weight EXCEPT ![t] = 0]
    /\ current_time' = [current_time EXCEPT ![t] = 0]
    /\ current_weight' = [current_weight EXCEPT ![t] = 0]
    /\ UNCHANGED <<now, wake>>
    /\ first_time' = CallOver(t)
    /\ UNCHANGED notRl

\* it does not fit: compute wait_time, leave the lock, asyncio.sleep(wait_time);
\* the locals of an iteration are dead once it is over
RLReject(t) ==
    /\ rlpc[t] = "check"
    /\ ~Fits(current_weight[t], weight[t])
    /\ wake' = [wake EXCEPT ![t] = now + WaitTime(requests, current_time[t])]
    /\ lock' = NoTask
    /\ rlpc' = [rlpc EXCEPT ![t] = "sleep"]
    /\ current_time' = [current_time EXCEPT ![t] = 0]
    /\ current_weight' = [current_weight EXCEPT ![t] = 0]
    /\ UNCHANGED <<now, requests, weight, admitted>>
    /\ UNCHANGED first_time
    /\ UNCHANGED notRl

\* the sleep is over: the while loop starts again
RLWake(t) ==
    /\ rlpc[t] = "sleep"
    /\ now >= wake[t]
    /\ rlpc' = [rlpc EXCEPT ![t] = "lock"]
    /\ wake' = [wake EXCEPT ![t] = 0]
    /\ UNCHANGED <<now, requests, lock, weight, current_time, current_weight, admitted>>
    /\ UNCHANGED first_time
    /\ UNCHANGED notRl

\* The clock advances.  The body of the lock has no await, so no measurable
\* time passes while a task is inside it.
Tick ==
    /\ lock = NoTask
    /\ now < MaxTime
    /\ now' = now + TickStep
    /\ admitted' = SelectSeq(admitted, LAMBDA e : now' - e.ts < Window)
    /\ UNCHANGED <<requests, lock, rlpc, weight, current_time, current_weight, wake>>
    /\ UNCHANGED first_time
    /\ UNCHANGED notRl

NextLimiter ==
    \/ \E t \in Tasks, w \in Weights : RLCall(t, w)
    \/ \E t \in Tasks : RLLock(t)
    \/ \E t \in Tasks : RLPrune(t)
    \/ \E t \in Tasks : RLAdmit(t)
    \/ \E t \in Tasks : RLReject(t)
    \/ \E t \in Tasks : RLWake(t)
    \/ Tick

SpecLimiter == InitLimiter /\ [][NextLimiter]_vars

InLog(e) == \E i \in 1..Len(requests) : requests[i] = e

\* C2: the weights of the requests admitted less than 60 seconds ago never sum
\* to more than max_weight_per_minute, and every one of them is in the log
\* with the time and weight it was admitted with.
C2_WindowWithinBudget ==
    /\ SumWeights(admitted) <= Budget
    /\ \A i \in 1..Len(admitted) : InLog(admitted[i])

\* the budget is used up by two admissions, one of them made after an older
\* entry left the window
C2_Witness ==
    /\ Len(admitted) >= 2
    /\ SumWeights(admitted) = Budget
    /\ now >= Window
    /\ \E t \in Tasks : rlpc[t] = "sleep"

\* C3: at most one task is between taking the lock and leaving it, and the
\* weight a task checks is the weight of the log as it is at the check.
C3_CheckAndRecordAtomic ==
    /\ \A t1, t2 \in Tasks :
          (rlpc[t1] \in {"prune", "check"} /\ rlpc[t2] \in {"prune", "check"})
             => t1 = t2
    /\ \A t \in Tasks : rlpc[t] \in {"prune", "check"} <=> lock = t
    /\ \A t \in Tasks : rlpc[t] = "check" => current_weight[t] = SumWeights(requests)

\* one task is inside the lock while another one waits for it
C3_Witness ==
    \E t1, t2 \in Tasks :
        /\ rlpc[t1] = "check"
        /\ rlpc[t2] = "lock"
        /\ requests # <<>>

\* C37: a call whose weight is above max_weight_per_minute never returns:
\* once made it stays in the loop of acquire, nothing is recorded for it, and
\* it does not hold the lock while it sleeps.
C37_OverweightCallNeverReturns ==
    /\ [](/\ \A i \in 1..Len(requests) : requests[i].w <= Budget
          /\ \A i \in 1..Len(admitted) : admitted[i].w <= Budget
          /\ \A t \in Tasks : rlpc[t] = "sleep" => lock # t)
    /\ [][\A t \in Tasks :
             weight[t] > Budget =>
                 /\ weight'[t] = weight[t]
                 /\ rlpc'[t] \in {"lock", "prune", "check", "sleep"}]_vars

\* an overweight call made at the start sleeps, the lock free, after the
\* request of another task has been admitted later on
C37_Witness ==
    \E t \in Tasks :
        /\ weight[t] > Budget
        /\ rlpc[t] = "sleep"
        /\ wake[t] > now
        /\ lock = NoTask
        /\ \E i \in 1..Len(admitted) : admitted[i].ts >= TickStep

\* ---- acquire with the time of each call's first pass recorded ----
InitLimiterTimed ==
    /\ ChunkIdle
    /\ CycleIdle
    /\ PageIdle
    /\ SemIdle
    /\ DbIdle /\ PairIdle /\ CollIdle /\ SaveIdle /\ ExtractIdle /\ FilterIdle
    /\ HttpIdle /\ GocIdle /\ RunIdle /\ FindIdle /\ CacheIdle
    /\ RLIdle
    /\ first_time = [t \in Tasks |-> None]

SpecLimiterTimed == InitLimiterTimed /\ [][NextLimiter]_vars

\* C30: a task whose weight is within the budget and that has to sleep is to
\* wake, and be admitted, no later than one window and the margin after the
\* first pass of its call, whatever the other tasks do.
C30_TotalWaitWithinOneWindow ==
    \A t \in Tasks :
        (rlpc[t] = "sleep" /\ weight[t] <= Budget)
            => wake[t] - first_time[t] <= Window + Margin

(***************************************************************************)
(*          BinanceAPI.collect_pair_data, BybitAPI.collect_pair_data       *)
(***************************************************************************)
Amounts == 0..MaxAmount
Exchanges == {"Binance", "Bybit"}

\* Pair symbols are strings that the converters take apart, so they are
\* sequences of characters here.
BTCUSDT == <<"B", "T", "C", "U", "S", "D", "T">>
BTCUSDC == <<"B", "T", "C", "U", "S", "D", "C">>
ETHBTC == <<"E", "T", "H", "B", "T", "C">>
XYZ == <<"X", "Y", "Z">>
USDT == <<"U", "S", "D", "T">>
USDC == <<"U", "S", "D", "C">>
BUSD == <<"B", "U", "S", "D">>
USD == <<"U", "S", "D">>
BTC == <<"B", "T", "C">>
ETH == <<"E", "T", "H">>
BNB == <<"B", "N", "B">>
PairSymbols == {BTCUSDT, XYZ}

\* A JSON field is a number, or Missing when the key is absent.
Missing == -2
JsonValues == Amounts \cup {Missing}

\* What a request can come to, by its status.  "fail": _make_request raised
\* after its retries, or the body could not be converted; the accessors catch
\* both alike.  "empty": a Bybit result whose list is empty.  "ok": the JSON
\* object in the other fields.
OkOrBare(r, flds) == r.status = "ok" \/ \A f \in flds : r[f] = Missing

BinanceOpenInterestResponses ==
    {r \in [status : {"ok", "fail"}, openInterest : JsonValues] :
        OkOrBare(r, {"openInterest"})}
BinancePremiumIndexResponses ==
    {r \in [status : {"ok", "fail"}, lastFundingRate : JsonValues] :
        OkOrBare(r, {"lastFundingRate"})}
BinanceTickerPriceResponses ==
    {r \in [status : {"ok", "fail"}, price : JsonValues] : OkOrBare(r, {"price"})}
Binance24hrResponses ==
    {r \in [status : {"ok", "fail"}, quoteVolume : JsonValues, count : JsonValues] :
        OkOrBare(r, {"quoteVolume", "count"})}
BybitOpenInterestResponses ==
    {r \in [status : {"ok", "fail", "empty"}, openInterest : JsonValues] :
        OkOrBare(r, {"openInterest"})}
BybitFundingResponses ==
    {r \in [status : {"ok", "fail", "empty"}, fundingRate : JsonValues] :
        OkOrBare(r, {"fundingRate"})}
BybitTickersResponses ==
    {r \in [status : {"ok", "fail", "empty"}, lastPrice : JsonValues,
            turnover24h : JsonValues] : OkOrBare(r, {"lastPrice", "turnover24h"})}

\* data.get(key, '0') followed by Decimal(...)
GetOrZero(v) == IF v = Missing THEN 0 ELSE v

\* Decimal(x) if x else None, x = data.get(key): a string, or None when absent
DecimalOrNone(v) == IF v = Missing THEN None ELSE v

\* Python's truth value of a Decimal or None
TruthyDecimal(v) == v # None /\ v # 0

\* An accessor returns a dict or None: <<d>> or <<>>.
NoneDict == <<>>
TruthyDict(d) == d # NoneDict

Binance_get_open_interest(resp) ==
    IF resp.status # "ok" THEN NoneDict
    ELSE <<[openInterest |-> GetOrZero(resp.openInterest)]>>

Binance_get_funding_rate(resp) ==
    IF resp.status # "ok" THEN None ELSE DecimalOrNone(resp.lastFundingRate)

Binance_get_ticker_price(resp) ==
    IF resp.status # "ok" THEN None ELSE DecimalOrNone(resp.price)

Binance_get_24hr_ticker(resp) ==
    IF resp.status # "ok" THEN NoneDict
    ELSE <<[quoteVolume |-> GetOrZero(resp.quoteVolume),
            count |-> GetOrZero(resp.count)]>>

Bybit_get_open_interest(resp) ==
    IF resp.status # "ok" THEN NoneDict
    ELSE <<[openInterest |-> GetOrZero(resp.openInterest)]>>

Bybit_get_funding_rate(resp) ==
    IF resp.status # "ok" THEN None ELSE DecimalOrNone(resp.fundingRate)

Bybit_get_ticker(resp) ==
    IF resp.status # "ok" THEN NoneDict
    ELSE <<[lastPrice |-> GetOrZero(resp.lastPrice),
            turnover24h |-> GetOrZero(resp.turnover24h)]>>

\* the dict BinanceAPI.collect_pair_data builds from the four gathered results
Binance_collect_pair_data(sym, open_interest_data, funding_rate, price, ticker_data) ==
    LET open_interest_usd ==
            IF TruthyDict(open_interest_data) /\ TruthyDecimal(price)
               THEN open_interest_data[1].openInterest * price
               ELSE None
    IN [exchange |-> "Binance",
        symbol |-> sym,
        open_interest_contracts |->
            IF TruthyDict(open_interest_data) THEN open_interest_data[1].openInterest
            ELSE None,
        open_interest_usd |-> open_interest_usd,
        funding_rate |-> funding_rate,
        price |-> price,
        volume_24h |-> IF TruthyDict(ticker_data) THEN ticker_data[1].quoteVolume ELSE None,
        trade_count_24h |-> IF TruthyDict(ticker_data) THEN ticker_data[1].count ELSE None]

\* the dict BybitAPI.collect_pair_data builds from the three gathered results
Bybit_collect_pair_data(sym, open_interest_data, funding_rate, ticker_data) ==
    LET both == TruthyDict(open_interest_data) /\ TruthyDict(ticker_data)
        open_interest_contracts ==
            IF both THEN open_interest_data[1].openInterest ELSE None
        open_interest_usd ==
            IF both THEN open_interest_data[1].openInterest * ticker_data[1].lastPrice
            ELSE None
    IN [exchange |-> "Bybit",
        symbol |-> sym,
        open_interest_contracts |-> open_interest_contracts,
        open_interest_usd |-> open_interest_usd,
        funding_rate |-> funding_rate,
        price |-> IF TruthyDict(ticker_data) THEN ticker_data[1].lastPrice ELSE None,
        volume_24h |-> IF TruthyDict(ticker_data) THEN ticker_data[1].turnover24h ELSE None]

\* the sub-fetches of one call: 1 open interest, 2 funding rate, 3 price
\* (Binance) or ticker (Bybit), 4 24h ticker (Binance)
NFetches(ex) == IF ex = "Binance" THEN 4 ELSE 3

InitPair ==
    /\ ChunkIdle
    /\ CycleIdle
    /\ PageIdle
    /\ SemIdle
    /\ WaitIdle
    /\ CacheIdle
    /\ FindIdle
    /\ RunIdle
    /\ GocIdle
    /\ HttpIdle
    /\ FilterIdle
    /\ ExtractIdle
    /\ RLIdle
    /\ DbIdle
    /\ CollIdle
    /\ SaveIdle
    /\ exchange \in Exchanges
    /\ symbol \in PairSymbols
    /\ fetched = {}
    /\ results = IF exchange = "Binance" THEN <<NoneDict, None, None, NoneDict>>
                 ELSE <<NoneDict, None, NoneDict>>
    /\ pairpc = "gather"
    /\ pair_data = <<>>

\* sub-fetch k of the gather ends with result r
FetchDone(k, r) ==
    /\ pairpc = "gather"
    /\ k \notin fetched
    /\ fetched' = fetched \cup {k}
    /\ results' = [results EXCEPT ![k] = r]
    /\ UNCHANGED <<exchange, symbol, pairpc, pair_data>>
    /\ UNCHANGED notPair

BinanceFetchOpenInterest ==
    /\ exchange = "Binance"
    /\ \E resp \in BinanceOpenInterestResponses :
          FetchDone(1, Binance_get_open_interest(resp))

BinanceFetchFundingRate ==
    /\ exchange = "Binance"
    /\ \E resp \in BinancePremiumIndexResponses :
          FetchDone(2, Binance_get_funding_rate(resp))

BinanceFetchTickerPrice ==
    /\ exchange = "Binance"
    /\ \E resp \in BinanceTickerPriceResponses :
          FetchDone(3, Binance_get_ticker_price(resp))

BinanceFetch24hrTicker ==
    /\ exchange = "Binance"
    /\ \E resp \in Binance24hrResponses :
          FetchDone(4, Binance_get_24hr_ticker(resp))

BybitFetchOpenInterest ==
    /\ exchange = "Bybit"
    /\ \E resp \in BybitOpenInterestResponses :
          FetchDone(1, Bybit_get_open_interest(resp))

BybitFetchFundingRate ==
    /\ exchange = "Bybit"
    /\ \E resp \in BybitFundingResponses :
          FetchDone(2, Bybit_get_funding_rate(resp))

BybitFetchTicker ==
    /\ exchange = "Bybit"
    /\ \E resp \in BybitTickersResponses :
          FetchDone(3, Bybit_get_ticker(resp))

\* asyncio.gather returned: the results are put together
CollectPairData ==
    /\ pairpc = "gather"
    /\ fetched = 1..NFetches(exchange)
    /\ pair_data' =
          IF exchange = "Binance"
             THEN <<Binance_collect_pair_data(symbol, results[1], results[2],
                                              results[3], results[4])>>
             ELSE <<Bybit_collect_pair_data(symbol, results[1], results[2], results[3])>>
    /\ pairpc' = "returned"
    /\ UNCHANGED <<exchange, symbol, fetched, results>>
    /\ UNCHANGED notPair

NextPair ==
    \/ BinanceFetchOpenInterest
    \/ BinanceFetchFundingRate
    \/ BinanceFetchTickerPrice
    \/ BinanceFetch24hrTicker
    \/ BybitFetchOpenInterest
    \/ BybitFetchFundingRate
    \/ BybitFetchTicker
    \/ CollectPairData

SpecPair == InitPair /\ [][NextPair]_vars

\* the price one call obtained: the price fetch of Binance, the lastPrice of
\* the ticker of Bybit
ObtainedPrice ==
    IF exchange = "Binance" THEN results[3]
    ELSE IF results[3] = NoneDict THEN None ELSE results[3][1].lastPrice

\* the 24h volume one call obtained
ObtainedVolume ==
    IF exchange = "Binance"
       THEN IF results[4] = NoneDict THEN None ELSE results[4][1].quoteVolume
       ELSE IF results[3] = NoneDict THEN None ELSE results[3][1].turnover24h

\* C6: a field of the returned record has the value its own sub-fetch gave,
\* whatever became of the other sub-fetches.
C6_SubFetchFailureNullsOnlyItsFields ==
    pairpc = "returned" =>
        /\ results[1] # NoneDict =>
              pair_data[1].open_interest_contracts = results[1][1].openInterest
        /\ pair_data[1].funding_rate = results[2]
        /\ pair_data[1].price = ObtainedPrice
        /\ pair_data[1].volume_24h = ObtainedVolume

\* C7: open_interest_usd is contracts x price when both were obtained, zero
\* operands included, and null when either is missing.
C7_OpenInterestUsdIsProduct ==
    pairpc = "returned" =>
        pair_data[1].open_interest_usd =
            IF results[1] # NoneDict /\ ObtainedPrice # None
               THEN results[1][1].openInterest * ObtainedPrice
               ELSE None

(***************************************************************************)
(*                    DatabaseManager.save_trades                          *)
(***************************************************************************)
TradeIds == 1..MaxTradeId
TradeSymbols == {"BTCUSDT", "ETHUSDT"}

\* A Trade as far as the store is concerned: its id (the primary key) and a
\* column that can tell two rows with one id apart.
Trade == [id : TradeIds, symbol : TradeSymbols]

SeqsUpTo(S, n) == UNION {[1..k -> S] : k \in 0..n}

\* SELECT id FROM large_trades WHERE id IN (trade_ids)
SelectExistingIds(table, ts) ==
    {r.id : r \in {x \in table : \E i \in 1..Len(ts) : ts[i].id = x.id}}

\* new_trades / duplicate_count of the for loop
NewTrades(ts, existing) == SelectSeq(ts, LAMBDA t : t.id \notin existing)
\* a count of the stored ids met in the list, not of the trades that carry them
DuplicateCountDistinctIds(ts, existing) ==
    Cardinality({ts[i].id : i \in 1..Len(ts)} \cap existing)
DuplicateCount(ts, existing) == Len(SelectSeq(ts, LAMBDA t : t.id \in existing))

\* a plain INSERT into a table without the primary key
InsertRowNoKey(table, t) == table \cup {t}

\* One row of INSERT IGNORE: skipped when the primary key is taken.
InsertIgnoreRow(table, t) ==
    IF \E r \in table : r.id = t.id THEN table ELSE table \cup {t}

\* cursor.executemany(INSERT IGNORE ...): the rows in order; <<table, rowcount>>
RECURSIVE ExecuteManyInsertIgnore(_, _)
ExecuteManyInsertIgnore(table, values) ==
    IF values = <<>> THEN <<table, 0>>
    ELSE LET t1 == InsertIgnoreRow(table, Head(values))
             rest == ExecuteManyInsertIgnore(t1, Tail(values))
         IN <<rest[1], rest[2] + (IF t1 = table THEN 0 ELSE 1)>>

UniqueIds(table) == \A r1, r2 \in table : r1.id = r2.id => r1 = r2

InitTrades ==
    /\ ChunkIdle
    /\ CycleIdle
    /\ PageIdle
    /\ SemIdle
    /\ WaitIdle
    /\ CacheIdle
    /\ FindIdle
    /\ RunIdle
    /\ GocIdle
    /\ HttpIdle
    /\ FilterIdle
    /\ ExtractIdle
    /\ RLIdle
    /\ PairIdle
    /\ CollIdle
    /\ SaveIdle
    /\ large_trades \in {t \in SUBSET Trade : UniqueIds(t)}
    /\ trades \in SeqsUpTo(Trade, MaxTrades)
    /\ dbpc = "select"
    /\ callNo = 1
    /\ existing_ids = {}
    /\ ret = <<NoReturn, NoReturn>>
    /\ rowsAfterFirst = {}

\* The call is over: record what it returned and start the next one.
Return(result, table) ==
    /\ ret' = [ret EXCEPT ![callNo] = result]
    /\ IF callNo = 1
          THEN /\ callNo' = 2
               /\ dbpc' = "select"
               /\ rowsAfterFirst' = table
          ELSE /\ dbpc' = "done"
               /\ UNCHANGED <<callNo, rowsAfterFirst>>

\* if not trades: return 0, 0
SaveTradesEmpty ==
    /\ dbpc = "select"
    /\ trades = <<>>
    /\ Return(<<0, 0>>, large_trades)
    /\ UNCHANGED <<large_trades, trades, existing_ids, notDb>>

\* await cursor.execute(check_sql, trade_ids)
SaveTradesSelect ==
    /\ dbpc = "select"
    /\ trades # <<>>
    /\ existing_ids' = SelectExistingIds(large_trades, trades)
    /\ dbpc' = "insert"
    /\ UNCHANGED <<large_trades, trades, callNo, ret, rowsAfterFirst, notDb>>

\* the filtering loop, executemany and the return
SaveTradesInsert ==
    /\ dbpc = "insert"
    /\ LET new_trades == NewTrades(trades, existing_ids)
           duplicate_count == DuplicateCount(trades, existing_ids)
           done == ExecuteManyInsertIgnore(large_trades, new_trades)
       IN IF new_trades # <<>>
             THEN /\ large_trades' = done[1]
                  /\ Return(<<done[2], duplicate_count>>, done[1])
             ELSE /\ large_trades' = large_trades
                  /\ Return(<<0, duplicate_count>>, large_trades)
    /\ UNCHANGED <<trades, existing_ids, notDb>>

NextTrades == SaveTradesEmpty \/ SaveTradesSelect \/ SaveTradesInsert

SpecTrades == InitTrades /\ [][NextTrades]_vars

\* C1: calling save_trades(T) a second time leaves large_trades as the first
\* call left it and returns (0 new, |T| duplicates); no id ever has two rows.
C1_SaveTradesIdempotent ==
    /\ UniqueIds(large_trades)
    /\ dbpc = "done" =>
          /\ large_trades = rowsAfterFirst
          /\ ret[2] = <<0, Len(trades)>>

\* a list with a repeated id, of which the first call stored a row
C1_Witness ==
    /\ dbpc = "done"
    /\ Len(trades) >= 2
    /\ \E i, j \in 1..Len(trades) : i < j /\ trades[i].id = trades[j].id
    /\ ret[1][1] > 0

\* C21: the call that returns (n, d) added exactly n rows to large_trades, and
\* exactly d trades of its list had an id that was stored when it was called.
C21_ReturnsExactCounts ==
    [][ret' # ret =>
          ret'[callNo] =
              <<Cardinality(large_trades') - Cardinality(large_trades),
                Cardinality({i \in 1..Len(trades) :
                                \E r \in large_trades : r.id = trades[i].id})>>]_vars

\* a first call that stored one trade and skipped another as a duplicate
C21_Witness ==
    /\ callNo = 2
    /\ ret[1] # NoReturn
    /\ ret[1][1] > 0
    /\ ret[1][2] > 0


(***************************************************************************)
(* The batch loops: FuturesDataCollector.collect_exchange_data for Binance *)
(* and Bybit, and the loop of run_monitoring_cycle.                        *)
(***************************************************************************)
Drivers == {"Binance", "Bybit", "Monitor"}

\* the symbols of the discovered pairs, in the order of the task list
PairNames == <<BTCUSDT, BTCUSDC, ETHBTC, XYZ>>
SymbolOf(k) == PairNames[((k - 1) % Len(PairNames)) + 1]

\* the response of sub-fetch j of a pair whose sub-fetches in failing fail
\* and whose other sub-fetches answer the amount a in every field
StatusOf(failing, j) == IF j \in failing THEN "fail" ELSE "ok"
ValueOf(failing, j, a) == IF j \in failing THEN Missing ELSE a

\* api.collect_pair_data(pair['symbol']) with these sub-fetches failing
CollectPairDataWith(ex, sym, failing, a) ==
    IF ex = "Binance"
       THEN Binance_collect_pair_data(
                sym,
                Binance_get_open_interest([status |-> StatusOf(failing, 1),
                                           openInterest |-> ValueOf(failing, 1, a)]),
                Binance_get_funding_rate([status |-> StatusOf(failing, 2),
                                          lastFundingRate |-> ValueOf(failing, 2, a)]),
                Binance_get_ticker_price([status |-> StatusOf(failing, 3),
                                          price |-> ValueOf(failing, 3, a)]),
                Binance_get_24hr_ticker([status |-> StatusOf(failing, 4),
                                         quoteVolume |-> ValueOf(failing, 4, a),
                                         count |-> ValueOf(failing, 4, a)]))
       ELSE Bybit_collect_pair_data(
                sym,
                Bybit_get_open_interest([status |-> StatusOf(failing, 1),
                                         openInterest |-> ValueOf(failing, 1, a)]),
                Bybit_get_funding_rate([status |-> StatusOf(failing, 2),
                                        fundingRate |-> ValueOf(failing, 2, a)]),
                Bybit_get_ticker([status |-> StatusOf(failing, 3),
                                  lastPrice |-> ValueOf(failing, 3, a),
                                  turnover24h |-> ValueOf(failing, 3, a)]))

\* What a task of the gather ends with: the exception it raised, or the value
\* it returned (a record for collect_pair_data, the large trades of the pair
\* for process_pair); failing names the sub-fetches that failed in it.
Returned(v, failing) == [raised |-> FALSE, value |-> v, failing |-> failing]
Raised == [raised |-> TRUE, value |-> <<>>, failing |-> {}]

\* collect_pair_data never raises: every accessor catches its exceptions.
ExchangeTaskOutcomes(ex, k) ==
    {Returned(<<CollectPairDataWith(ex, SymbolOf(k), failing, MaxAmount)>>, failing) :
        failing \in SUBSET (1..NFetches(ex))}

\* process_pair returns the large trades of the pair, [] when the fetch
\* failed, and raises when find_large_trades meets a malformed trade.
MonitorTaskOutcomes ==
    {Raised} \cup {Returned(ts, {}) : ts \in SeqsUpTo(Trade, 1)}

TaskOutcomes(drv, k) ==
    IF drv = "Monitor" THEN MonitorTaskOutcomes ELSE ExchangeTaskOutcomes(drv, k)

\* batch = tasks[i:i + batch_size]
BatchOf(start, n) == {k \in 1..n : start <= k /\ k < start + BatchSize}

\* a gather that passes the first exception on to its caller
GatherFirstException(batch, res) ==
    IF \E k \in batch : res[k].raised
       THEN [raised |-> TRUE, results |-> <<>>]
       ELSE [raised |-> FALSE,
             results |-> [j \in 1..Cardinality(batch) |->
                              res[CHOOSE k \in batch :
                                      Cardinality({m \in batch : m < k}) = j - 1]]]

\* asyncio.gather(*batch, return_exceptions=True): the results in the order of
\* the tasks, exceptions among them
Gather(batch, res) ==
    [raised |-> FALSE,
     results |-> [j \in 1..Cardinality(batch) |->
                      res[CHOOSE k \in batch :
                              Cardinality({m \in batch : m < k}) = j - 1]]]

\* the for loop over the results: what is added to all_data
RECURSIVE Contribution(_)
Contribution(rs) ==
    IF rs = <<>> THEN <<>>
    ELSE IF Head(rs).raised THEN Contribution(Tail(rs))
    ELSE Head(rs).value \o Contribution(Tail(rs))

\* the lines logged by the loop for the results that are exceptions
ExceptionCount(rs) == Len(SelectSeq(rs, LAMBDA r : r.raised))

InitCollect ==
    /\ ChunkIdle
    /\ CycleIdle
    /\ PageIdle
    /\ SemIdle
    /\ WaitIdle
    /\ CacheIdle
    /\ FindIdle
    /\ RunIdle
    /\ GocIdle
    /\ HttpIdle
    /\ FilterIdle
    /\ ExtractIdle
    /\ RLIdle
    /\ DbIdle
    /\ PairIdle
    /\ SaveIdle
    /\ driver \in Drivers
    /\ npairs \in 0..NPairs
    /\ batch_start = 1
    /\ task_state = [k \in 1..npairs |-> "created"]
    /\ task_result = [k \in 1..npairs |-> Raised]
    /\ all_data = <<>>
    /\ error_logs = 0
    /\ totals = <<0, 0>>
    /\ collpc = IF npairs = 0 THEN "returned" ELSE "gather"
    /\ pacing = 0

\* a task of the batch being gathered runs to its end
TaskRuns(k) ==
    /\ collpc = "gather"
    /\ k \in BatchOf(batch_start, npairs)
    /\ task_state[k] = "created"
    /\ \E o \in TaskOutcomes(driver, k) :
          task_result' = [task_result EXCEPT ![k] = o]
    /\ task_state' = [task_state EXCEPT ![k] = "done"]
    /\ UNCHANGED <<driver, npairs, batch_start, all_data, error_logs, totals, collpc,
                   pacing>>
    /\ UNCHANGED <<large_trades, notColl>>

\* a loop that sleeps after every batch, the last one too
AfterBatchAlwaysSleeps == "sleep"

\* if i + batch_size < len(tasks): sleep, else the loop is over
AfterBatch ==
    IF batch_start + BatchSize <= npairs THEN "sleep" ELSE "returned"

\* await asyncio.sleep(1) for Binance, (2) for Bybit, (3) in the monitor
PacingDelay(drv) ==
    CASE drv = "Binance" -> 1
      [] drv = "Bybit" -> 2
      [] drv = "Monitor" -> 3

PacingAfterBatch == IF AfterBatch = "sleep" THEN PacingDelay(driver) ELSE 0

\* an exception left the gather: the tasks of the batch that have not ended
\* are cancelled and the except clause around the loop ends the collection
Abort ==
    /\ collpc' = "aborted"
    /\ task_state' = [k \in 1..npairs |->
                         IF k \in BatchOf(batch_start, npairs) /\ task_state[k] = "created"
                            THEN "cancelled" ELSE task_state[k]]
    /\ UNCHANGED pacing

\* main.py: the gather of a batch returns and its results are appended
GatherReturnsExchange ==
    /\ collpc = "gather"
    /\ driver # "Monitor"
    /\ LET batch == BatchOf(batch_start, npairs)
           g == Gather(batch, task_result)
       IN /\ \/ \A k \in batch : task_state[k] = "done"
             \/ g.raised
          /\ IF g.raised
                THEN /\ Abort
                     /\ all_data' = <<>>
                     /\ UNCHANGED error_logs
                ELSE /\ all_data' = all_data \o Contribution(g.results)
                     /\ error_logs' = error_logs + ExceptionCount(g.results)
                     /\ collpc' = AfterBatch
                     /\ pacing' = PacingAfterBatch
                     /\ UNCHANGED task_state
    /\ UNCHANGED <<driver, npairs, batch_start, task_result, totals>>
    /\ UNCHANGED <<large_trades, notColl>>

\* test.py: the gather of a batch returns, the trades found are saved with
\* save_trades and added to all_large_trades
GatherReturnsMonitor ==
    /\ collpc = "gather"
    /\ driver = "Monitor"
    /\ LET batch == BatchOf(batch_start, npairs)
           g == Gather(batch, task_result)
           batch_trades == Contribution(g.results)
           existing == SelectExistingIds(large_trades, batch_trades)
           done == ExecuteManyInsertIgnore(large_trades, NewTrades(batch_trades, existing))
       IN /\ \/ \A k \in batch : task_state[k] = "done"
             \/ g.raised
          /\ IF g.raised
                THEN /\ Abort
                     /\ UNCHANGED <<all_data, error_logs, totals, large_trades>>
                ELSE /\ large_trades' = done[1]
                     /\ totals' = <<totals[1] + done[2],
                                    totals[2] + DuplicateCount(batch_trades, existing)>>
                     /\ all_data' = all_data \o batch_trades
                     /\ error_logs' = error_logs + ExceptionCount(g.results)
                     /\ collpc' = AfterBatch
                     /\ pacing' = PacingAfterBatch
                     /\ UNCHANGED task_state
    /\ UNCHANGED <<driver, npairs, batch_start, task_result>>
    /\ UNCHANGED notColl

\* test.py: save_trades raises (the database is gone); the except clause of
\* run_monitoring_cycle ends the cycle
MonitorSaveRaises ==
    /\ collpc = "gather"
    /\ driver = "Monitor"
    /\ \A k \in BatchOf(batch_start, npairs) : task_state[k] = "done"
    /\ Contribution(Gather(BatchOf(batch_start, npairs), task_result).results) # <<>>
    /\ collpc' = "aborted"
    /\ UNCHANGED <<driver, npairs, batch_start, task_state, task_result, all_data,
                   error_logs, totals, pacing>>
    /\ UNCHANGED <<large_trades, notColl>>

\* await asyncio.sleep(...) between two batches is over: the next batch
PacingOver ==
    /\ collpc = "sleep"
    /\ batch_start' = batch_start + BatchSize
    /\ collpc' = "gather"
    /\ pacing' = 0
    /\ UNCHANGED <<driver, npairs, task_state, task_result, all_data, error_logs, totals>>
    /\ UNCHANGED <<large_trades, notColl>>

NextCollect ==
    \/ \E k \in 1..NPairs : TaskRuns(k)
    \/ GatherReturnsExchange
    \/ GatherReturnsMonitor
    \/ MonitorSaveRaises
    \/ PacingOver

SpecCollect == InitCollect /\ [][NextCollect]_vars

\* the tasks of the batches whose gather has returned
Gathered ==
    {k \in 1..npairs :
        \/ k < batch_start
        \/ k \in BatchOf(batch_start, npairs) /\ collpc \in {"sleep", "returned"}}

\* the tasks 1..n in order, as a sequence of their results
ResultsUpTo(n) == [k \in 1..n |-> task_result[k]]

AllFetchesFail(k) ==
    /\ ~task_result[k].raised
    /\ task_result[k].failing = 1..NFetches(driver)

\* C4: when every fetch of exactly one pair fails, the collection returns a
\* record for every other pair and none for that pair, and logs one failure.
C4_FailingPairIsLeftOut ==
    (/\ collpc = "returned"
     /\ driver \in Exchanges
     /\ Cardinality({k \in 1..npairs : AllFetchesFail(k)}) = 1)
    => /\ Len(all_data) = npairs - 1
       /\ error_logs = 1

\* C5: a task that raises cancels nothing: when the gather of a batch has
\* returned every task of it has run to its end, what the loop has collected
\* is exactly what the tasks that did not raise returned, in order, and the
\* loop goes on to the last batch unless save_trades itself raises.
C5_RaisingTaskIsIsolated ==
    /\ \A k \in 1..npairs : task_state[k] # "cancelled"
    /\ \A k \in Gathered : task_state[k] = "done"
    /\ collpc \in {"gather", "sleep", "returned"} =>
          all_data = Contribution(ResultsUpTo(Cardinality(Gathered)))
    /\ collpc = "returned" => Gathered = 1..npairs
    /\ collpc = "aborted" =>
          /\ driver = "Monitor"
          /\ \A k \in BatchOf(batch_start, npairs) : task_state[k] = "done"
          /\ Contribution(Gather(BatchOf(batch_start, npairs), task_result).results) # <<>>

\* a task of the first batch raised, its sibling's trades were collected and
\* the second batch ran
C5_Witness ==
    /\ collpc = "returned"
    /\ npairs > BatchSize
    /\ \E k1, k2 \in BatchOf(1, npairs) :
          /\ task_result[k1].raised
          /\ ~task_result[k2].raised
          /\ task_result[k2].value # <<>>
    /\ \E k \in 1..npairs : k > BatchSize /\ ~task_result[k].raised
                               /\ task_result[k].value # <<>>
    /\ error_logs >= 1

\* C23: a failure of save_trades on the trades of one batch does not end the
\* cycle: no batch is left unprocessed when the loop is over.
C23_SaveFailureLeavesNoBatchOut ==
    collpc = "aborted" => batch_start + BatchSize > npairs

\* C31: the batches are consecutive and of one size, no task of a later batch
\* has started while the current batch or its pacing sleep is in progress,
\* the sleep is 1 s for Binance, 2 s for Bybit and 3 s in the monitor and
\* follows every batch but the last, and a loop that returns has run every
\* task.
C31_BatchesInOrderWithPacing ==
    /\ (batch_start - 1) % BatchSize = 0
    /\ \A k \in 1..npairs :
          /\ task_state[k] # "created" => k < batch_start + BatchSize
          /\ k < batch_start => task_state[k] = "done"
    /\ collpc = "sleep" =>
          /\ \A k \in BatchOf(batch_start, npairs) : task_state[k] = "done"
          /\ batch_start + BatchSize <= npairs
          /\ pacing = IF driver = "Binance" THEN 1 ELSE IF driver = "Bybit" THEN 2 ELSE 3
    /\ collpc # "sleep" => pacing = 0
    /\ collpc = "returned" =>
          /\ \A k \in 1..npairs : task_state[k] = "done"
          /\ batch_start + BatchSize > npairs

\* the pacing sleep of Bybit after a first batch, the tasks of the second
\* batch not yet started
C31_Witness ==
    /\ collpc = "sleep"
    /\ driver = "Bybit"
    /\ pacing = 2
    /\ batch_start = 1
    /\ \A k \in 1..npairs : k > BatchSize => task_state[k] = "created"

\* ---- the batch loops under an interrupt ----
\* SIGINT reaches asyncio.run while the loop awaits a gather or a pacing
\* sleep: the main task is cancelled, the cancellation goes through the gather
\* to every task of the batch that has not ended, and CancelledError, which
\* no except Exception clause catches, unwinds the collecting coroutine; its
\* local lists go with it, the rows already written stay.
Interrupt ==
    /\ collpc \in {"gather", "sleep"}
    /\ task_state' = [k \in 1..npairs |->
                         IF k \in BatchOf(batch_start, npairs) /\ task_state[k] = "created"
                            THEN "cancelled" ELSE task_state[k]]
    /\ all_data' = <<>>
    /\ collpc' = "interrupted"
    /\ UNCHANGED <<driver, npairs, batch_start, task_result, error_logs, totals, pacing>>
    /\ UNCHANGED <<large_trades, notColl>>

NextInterrupt ==
    \/ NextCollect
    \/ Interrupt

SpecInterrupt == InitCollect /\ [][NextInterrupt]_vars

\* C26: after an interrupt every task of the batch in flight has run to its
\* end, and what the batches before it returned is still held.
C26_InterruptLetsTheBatchFinish ==
    collpc = "interrupted" =>
        /\ \A k \in BatchOf(batch_start, npairs) : task_state[k] = "done"
        /\ Len(all_data) >= Len(Contribution(ResultsUpTo(batch_start - 1)))


(***************************************************************************)
(* Snapshot writing: collect_cmc_data and process_and_save_data of         *)
(* src/main.py, the converters of src/utils/converters.py, the accessors   *)
(* of src/api/coinmarketcap.py and the tables of src/db/database.py.       *)
(***************************************************************************)
\* a list in which USD comes before BUSD
QuoteCurrenciesUsdFirst == <<USDT, USDC, USD, BUSD, BTC, ETH, BNB>>

\* quote_currencies of extract_token_symbol
quote_currencies == <<USDT, USDC, BUSD, USD, BTC, ETH, BNB>>

\* pair_symbol.endswith(quote)
EndsWith(s, q) ==
    /\ Len(s) >= Len(q)
    /\ SubSeq(s, Len(s) - Len(q) + 1, Len(s)) = q

\* Python's None where a string is expected
NoneStr == <<"None">>

\* the first quote currency of the list the symbol ends with is cut off
extract_token_symbol(pair_symbol) ==
    LET matching == {k \in 1..Len(quote_currencies) :
                        EndsWith(pair_symbol, quote_currencies[k])}
    IN IF matching = {} THEN NoneStr
       ELSE LET first == CHOOSE k \in matching : \A m \in matching : k <= m
            IN SubSeq(pair_symbol, 1, Len(pair_symbol) - Len(quote_currencies[first]))

\* a converter that says nothing
LogsNothing(pair_symbol) == FALSE

\* logger.warning of extract_token_symbol: no quote currency matched
LogsWarning(pair_symbol) ==
    \A k \in 1..Len(quote_currencies) : ~EndsWith(pair_symbol, quote_currencies[k])

\* not token_symbol
FalsyStr(t) == t = NoneStr \/ t = <<>>

\* A Decimal quotient is kept exactly, as <<numerator, denominator>>; NoRatio
\* is Python's None where a quotient is expected.
NoRatio == <<>>

convert_to_btc(amount_usd, btc_price) ==
    IF btc_price = 0 THEN <<0, 1>> ELSE <<amount_usd, btc_price>>

\* a conversion that is guarded by the exchange volume only
VolumeBtcUnguarded(volume_24h, btc_price) ==
    IF TruthyDecimal(volume_24h)
       THEN convert_to_btc(volume_24h, btc_price)
       ELSE NoRatio

\* volume_btc of process_and_save_data
VolumeBtc(volume_24h, btc_price) ==
    IF TruthyDecimal(volume_24h) /\ TruthyDecimal(btc_price) /\ btc_price > 0
       THEN convert_to_btc(volume_24h, btc_price)
       ELSE NoRatio

\* ---- CoinMarketCapAPI ----
\* the answer to the quotes request for BTC
CmcBtcResponses ==
    {r \in [status : {"ok", "fail"}, price : JsonValues] : OkOrBare(r, {"price"})}

\* the USD quote of one token; the market capitalisation follows the price
QuoteResponses ==
    {[price |-> p, volume_24h |-> v, market_cap |-> p] : p, v \in JsonValues}

get_btc_price(resp) ==
    IF resp.status # "ok" THEN None ELSE DecimalOrNone(resp.price)

safe_decimal(value) == IF value = Missing THEN 0 ELSE value

extract_token_data(quote) ==
    [price_usd |-> safe_decimal(quote.price),
     volume_24h_usd |-> safe_decimal(quote.volume_24h),
     market_cap_usd |-> safe_decimal(quote.market_cap)]

\* quotes_data maps the tokens the provider knows to their quotes; the
\* result is a dict over those of the symbols asked for, {} on any failure
get_tokens_data(symbols, status, quotes_data) ==
    LET found == symbols \cap DOMAIN quotes_data
    IN IF symbols = {} \/ status # "ok" \/ found = {} THEN <<>>
       ELSE [t \in found |-> extract_token_data(quotes_data[t])]

\* cmc_data.get('_btc_price', Decimal('0'))
CmcBtcPrice(cmc) == IF cmc.btc_price = <<>> THEN 0 ELSE cmc.btc_price[1]

\* cmc_data.get(token_symbol, {}): <<>> is the empty dict
CmcTokenData(cmc, token_symbol) ==
    IF token_symbol \in DOMAIN cmc.quotes THEN <<cmc.quotes[token_symbol]>> ELSE <<>>

\* cmc_token_data.get(key)
DictGet(d, key) == IF d = <<>> THEN None ELSE d[1][key]

\* ---- Database ----
\* a SELECT that finds no row
SelectNothing(tbl, sym) == 0

\* SELECT id FROM tokens WHERE symbol = %s, fetchone(); 0 when there is no row
SelectTokenId(tbl, sym) ==
    IF \E k \in 1..Len(tbl) : tbl[k] = sym
       THEN CHOOSE k \in 1..Len(tbl) :
                tbl[k] = sym /\ \A m \in 1..Len(tbl) : tbl[m] = sym => k <= m
       ELSE 0

\* symbol.upper() leaves the symbols of the model as they are
get_or_create_token(tbl, sym) ==
    LET id == SelectTokenId(tbl, sym)
    IN IF id # 0 THEN [table |-> tbl, id |-> id]
       ELSE [table |-> Append(tbl, sym), id |-> Len(tbl) + 1]

\* SELECT id FROM futures_pairs WHERE exchange = %s AND pair_symbol = %s
SelectPairId(tbl, ex, sym) ==
    LET hits == {k \in 1..Len(tbl) : tbl[k].exchange = ex /\ tbl[k].pair_symbol = sym}
    IN IF hits = {} THEN 0 ELSE CHOOSE k \in hits : \A m \in hits : k <= m

\* an id handed out for a row that was never inserted
get_or_create_futures_pair_no_insert(tbl, token_id, ex, sym) ==
    LET id == SelectPairId(tbl, ex, sym)
    IN [table |-> tbl, id |-> IF id # 0 THEN id ELSE Len(tbl) + 1]

get_or_create_futures_pair(tbl, token_id, ex, sym) ==
    LET id == SelectPairId(tbl, ex, sym)
    IN IF id # 0 THEN [table |-> tbl, id |-> id]
       ELSE [table |-> Append(tbl, [token_id |-> token_id, exchange |-> ex,
                                    pair_symbol |-> sym,
                                    contract_type |-> "PERPETUAL"]),
             id |-> Len(tbl) + 1]

\* the dict futures_data that save_futures_data inserts
FuturesDataRow(data, cmc, pair_id) ==
    LET btc_price == CmcBtcPrice(cmc)
        cmc_token_data == CmcTokenData(cmc, extract_token_symbol(data.symbol))
    IN [pair_id |-> pair_id,
        open_interest_contracts |-> data.open_interest_contracts,
        open_interest_usd |-> data.open_interest_usd,
        funding_rate |-> data.funding_rate,
        volume_btc |-> VolumeBtc(data.volume_24h, btc_price),
        volume_usd |-> DictGet(cmc_token_data, "volume_24h_usd"),
        price_usd |-> DictGet(cmc_token_data, "price_usd"),
        market_cap_usd |-> DictGet(cmc_token_data, "market_cap_usd"),
        btc_price |-> btc_price]


\* ---- the inputs of one run ----
SaveSymbols == {BTCUSDT, XYZ}
\* zero and one amount that is not zero
SaveAmounts == {0, MaxAmount}
\* no sub-fetch fails, or every sub-fetch fails
SaveFailing(ex) == {{}, 1..NFetches(ex)}

\* the records the two collections can hand over
SaveRecords ==
    UNION {{CollectPairDataWith(ex, sym, failing, a) :
               sym \in SaveSymbols, failing \in SaveFailing(ex), a \in SaveAmounts} :
           ex \in Exchanges}

\* run(): the token symbols of the collected records, and BTC
TokenSymbols(data) ==
    {t \in {extract_token_symbol(data[k].symbol) : k \in 1..Len(data)} : ~FalsyStr(t)}
        \cup {BTC}

InitSave ==
    /\ ChunkIdle
    /\ CycleIdle
    /\ PageIdle
    /\ SemIdle
    /\ WaitIdle
    /\ CacheIdle
    /\ FindIdle
    /\ RunIdle
    /\ GocIdle
    /\ HttpIdle
    /\ FilterIdle
    /\ ExtractIdle
    /\ RLIdle
    /\ DbIdle
    /\ PairIdle
    /\ CollIdle
    /\ exchange_data \in SeqsUpTo(SaveRecords, NRecords)
    /\ cmc_btc_price = None
    /\ cmc_data = EmptyCmcData
    /\ data_index = 1
    /\ saved_count = 0
    /\ error_count = 0
    /\ tokens = <<>>
    /\ futures_pairs = <<>>
    /\ futures_data = <<>>
    /\ savepc = "cmc"
    /\ save_warned = 0

\* where the for loop is after a step over n records
LoopAt(n) == IF n > Len(exchange_data) THEN "done" ELSE "loop"

\* collect_cmc_data returns tokens_data, with '_btc_price' when it is truthy
CollectCmcData ==
    /\ savepc = "cmc"
    /\ \E resp \in CmcBtcResponses, status \in {"ok", "fail"},
          known \in SUBSET TokenSymbols(exchange_data) :
          \E quotes_data \in [known -> QuoteResponses] :
             LET btc_price == get_btc_price(resp)
                 tokens_data == get_tokens_data(TokenSymbols(exchange_data), status,
                                                quotes_data)
             IN /\ cmc_btc_price' = btc_price
                /\ cmc_data' = [quotes |-> tokens_data,
                                btc_price |-> IF TruthyDecimal(btc_price)
                                                 THEN <<btc_price>> ELSE <<>>]
    /\ savepc' = LoopAt(1)
    /\ UNCHANGED <<exchange_data, data_index, saved_count, error_count, tokens,
                   futures_pairs, futures_data, save_warned>>
    /\ UNCHANGED notSave

\* collect_cmc_data: the client could not be opened, {} is returned
CollectCmcDataRaises ==
    /\ savepc = "cmc"
    /\ cmc_btc_price' = None
    /\ cmc_data' = EmptyCmcData
    /\ savepc' = LoopAt(1)
    /\ UNCHANGED <<exchange_data, data_index, saved_count, error_count, tokens,
                   futures_pairs, futures_data, save_warned>>
    /\ UNCHANGED notSave

\* one pass of the for loop that saves a row
ProcessRecord ==
    /\ savepc = "loop"
    /\ LET data == exchange_data[data_index]
           token_symbol == extract_token_symbol(data.symbol)
           t == get_or_create_token(tokens, token_symbol)
           p == get_or_create_futures_pair(futures_pairs, t.id, data.exchange, data.symbol)
       IN /\ ~FalsyStr(token_symbol)
          /\ tokens' = t.table
          /\ futures_pairs' = p.table
          /\ futures_data' = Append(futures_data, FuturesDataRow(data, cmc_data, p.id))
    /\ saved_count' = saved_count + 1
    /\ data_index' = data_index + 1
    /\ savepc' = LoopAt(data_index + 1)
    /\ UNCHANGED <<exchange_data, cmc_btc_price, cmc_data, error_count, save_warned>>
    /\ UNCHANGED notSave

\* one pass of the for loop over a record without a token symbol: the
\* converter logs its warning when no quote currency matched, then continue
SkipRecord ==
    /\ savepc = "loop"
    /\ FalsyStr(extract_token_symbol(exchange_data[data_index].symbol))
    /\ save_warned' = IF LogsWarning(exchange_data[data_index].symbol)
                         THEN save_warned + 1 ELSE save_warned
    /\ data_index' = data_index + 1
    /\ savepc' = LoopAt(data_index + 1)
    /\ UNCHANGED <<exchange_data, cmc_btc_price, cmc_data, saved_count, error_count,
                   tokens, futures_pairs, futures_data>>
    /\ UNCHANGED notSave

\* one pass of the for loop in which the database call number failed raises:
\* 1 get_or_create_token, 2 get_or_create_futures_pair, 3 save_futures_data
ProcessRecordRaises(failed) ==
    /\ savepc = "loop"
    /\ LET data == exchange_data[data_index]
           token_symbol == extract_token_symbol(data.symbol)
           t == get_or_create_token(tokens, token_symbol)
           p == get_or_create_futures_pair(futures_pairs, t.id, data.exchange, data.symbol)
       IN /\ ~FalsyStr(token_symbol)
          /\ tokens' = IF failed > 1 THEN t.table ELSE tokens
          /\ futures_pairs' = IF failed > 2 THEN p.table ELSE futures_pairs
    /\ error_count' = error_count + 1
    /\ data_index' = data_index + 1
    /\ savepc' = LoopAt(data_index + 1)
    /\ UNCHANGED <<exchange_data, cmc_btc_price, cmc_data, saved_count, futures_data,
                   save_warned>>
    /\ UNCHANGED notSave

NextSave ==
    \/ CollectCmcData
    \/ CollectCmcDataRaises
    \/ ProcessRecord
    \/ SkipRecord
    \/ \E failed \in 1..3 : ProcessRecordRaises(failed)

SpecSave == InitSave /\ [][NextSave]_vars

\* C34: a record whose symbol ends with no quote currency is passed over with
\* one warning: it is counted neither as saved nor as an error, no token, no
\* pair and no snapshot row is written for it, and the loop goes on to the
\* records after it.
C34_UnparsableRecordIsSkipped ==
    LET passed == 1..(data_index - 1)
        unparsable == {k \in passed :
                          \A q \in 1..Len(quote_currencies) :
                              ~EndsWith(exchange_data[k].symbol, quote_currencies[q])}
    IN /\ save_warned = Cardinality(unparsable)
       /\ saved_count + error_count = Cardinality(passed \ unparsable)
       /\ Len(futures_data) = saved_count
       /\ \A k \in unparsable :
              /\ \A p \in 1..Len(futures_pairs) :
                     futures_pairs[p].pair_symbol # exchange_data[k].symbol
              /\ \A t \in 1..Len(tokens) : tokens[t] \notin {exchange_data[k].symbol, NoneStr}
       /\ savepc = "done" => data_index = Len(exchange_data) + 1

\* the loop is over: the first record was passed over, the one after it saved
C34_Witness ==
    /\ savepc = "done"
    /\ Len(exchange_data) = 2
    /\ exchange_data[1].symbol = XYZ
    /\ exchange_data[2].symbol = BTCUSDT
    /\ saved_count = 1 /\ error_count = 0 /\ save_warned = 1
    /\ Len(futures_data) = 1

C8_NoPriceNoOpenInterestUsd ==
    \A i \in 1..Len(futures_data) :
        futures_data[i].price_usd = None => futures_data[i].open_interest_usd = None

\* C9: in every row written, volume_btc is null when the BTC price that was
\* fetched is absent or zero, and when the btc_price of the row is zero.
C9_NoBtcPriceNoVolumeBtc ==
    \A i \in 1..Len(futures_data) :
        /\ (cmc_btc_price = None \/ cmc_btc_price = 0) =>
               futures_data[i].volume_btc = NoRatio
        /\ futures_data[i].btc_price = 0 => futures_data[i].volume_btc = NoRatio

\* every record was saved, the first has a volume that is not zero and the
\* BTC price came back as zero
C9_Witness ==
    /\ savepc = "done"
    /\ Len(exchange_data) >= 1
    /\ Len(futures_data) = Len(exchange_data)
    /\ TruthyDecimal(exchange_data[1].volume_24h)
    /\ cmc_btc_price = 0
    /\ futures_data[1].volume_btc = NoRatio

\* C10: in every row written that has a volume_usd and a btc_price that is
\* not zero, volume_btc is volume_usd divided by btc_price.
C10_VolumeBtcIsVolumeUsdOverBtcPrice ==
    \A i \in 1..Len(futures_data) :
        (/\ futures_data[i].volume_usd # None
         /\ futures_data[i].btc_price # None
         /\ futures_data[i].btc_price # 0)
        => /\ futures_data[i].volume_btc # NoRatio
           /\ futures_data[i].volume_btc[1] * futures_data[i].btc_price
                 = futures_data[i].volume_usd * futures_data[i].volume_btc[2]


\* C11: a value that is missing is never stored as zero; in particular the
\* btc_price of every row written is null when the BTC price could not be
\* fetched.
C11_MissingIsNeverZero ==
    \A i \in 1..Len(futures_data) :
        cmc_btc_price = None => futures_data[i].btc_price = None


(***************************************************************************)
(* DataConverter.extract_token_symbol as a function of the pair symbol.    *)
(***************************************************************************)
\* the pieces pair symbols are put together from: the quote currencies and
\* three pieces that are none
SymbolPieces == {USDT, USDC, BUSD, USD, BTC, ETH, BNB, XYZ, <<"W">>, <<"B">>}

RECURSIVE SymbolsOf(_)
SymbolsOf(n) ==
    IF n = 0 THEN {<<>>}
    ELSE SymbolsOf(n - 1) \cup {s \o q : s \in SymbolsOf(n - 1), q \in SymbolPieces}

InitExtract ==
    /\ ChunkIdle
    /\ CycleIdle
    /\ PageIdle
    /\ SemIdle
    /\ WaitIdle
    /\ CacheIdle
    /\ FindIdle
    /\ RunIdle
    /\ GocIdle
    /\ HttpIdle
    /\ FilterIdle
    /\ RLIdle
    /\ DbIdle
    /\ PairIdle
    /\ CollIdle
    /\ SaveIdle
    /\ arg_pair_symbol \in SymbolsOf(MaxPieces)
    /\ extracted = <<>>
    /\ extractpc = "call"

ExtractTokenSymbol ==
    /\ extractpc = "call"
    /\ extracted' = extract_token_symbol(arg_pair_symbol)
    /\ extractpc' = "returned"
    /\ UNCHANGED arg_pair_symbol
    /\ UNCHANGED notExtract

NextExtract == ExtractTokenSymbol

SpecExtract == InitExtract /\ [][NextExtract]_vars

\* the listed suffixes the symbol ends with
MatchingSuffixes(s) == {q \in {USDT, USDC, BUSD, USD, BTC, ETH, BNB} : EndsWith(s, q)}

\* C12: extract_token_symbol returns the symbol without the longest listed
\* suffix it ends with, and null when it ends with none; BTCUSDT gives BTC,
\* ETHBTC gives ETH and XYZ gives null.
C12_LongestSuffixRemoved ==
    extractpc = "returned" =>
        /\ MatchingSuffixes(arg_pair_symbol) = {} => extracted = NoneStr
        /\ \A q \in MatchingSuffixes(arg_pair_symbol) :
              (\A r \in MatchingSuffixes(arg_pair_symbol) : Len(r) <= Len(q))
              => extracted = SubSeq(arg_pair_symbol, 1, Len(arg_pair_symbol) - Len(q))
        /\ arg_pair_symbol = BTCUSDT => extracted = BTC
        /\ arg_pair_symbol = ETHBTC => extracted = ETH
        /\ arg_pair_symbol = XYZ => extracted = NoneStr

\* the call has returned for a symbol that ends with two listed suffixes
C12_Witness ==
    /\ extractpc = "returned"
    /\ Cardinality(MatchingSuffixes(arg_pair_symbol)) = 2
    /\ Len(extracted) > 0
    /\ extracted # NoneStr


(***************************************************************************)
(* TradingDataAnalyzer.filter_trading_pairs of src/test.py.                *)
(***************************************************************************)
MIN_VOLUME_USD == 1000000

STABLECOINS ==
    {<<"U", "S", "D", "T">>, <<"U", "S", "D", "C">>,
     <<"B", "U", "S", "D">>, <<"T", "U", "S", "D">>,
     <<"U", "S", "D", "P">>, <<"U", "S", "D", "D">>,
     <<"G", "U", "S", "D">>, <<"F", "R", "A", "X">>,
     <<"L", "U", "S", "D">>, <<"U", "S", "T", "C">>,
     <<"A", "L", "U", "S", "D">>, <<"C", "U", "S", "D">>,
     <<"C", "E", "U", "R">>, <<"E", "U", "R", "O", "C">>,
     <<"A", "G", "E", "U", "R">>, <<"A", "E", "U", "R">>,
     <<"S", "T", "E", "U", "R">>, <<"E", "U", "R", "S">>,
     <<"E", "U", "R", "T">>, <<"E", "U", "R", "C">>, <<"P", "A", "X">>,
     <<"F", "D", "U", "S", "D">>, <<"P", "Y", "U", "S", "D">>,
     <<"U", "S", "D", "B">>, <<"U", "S", "D", "J">>,
     <<"U", "S", "D", "X">>, <<"U", "S", "D", "Q">>,
     <<"T", "R", "I", "B", "E">>, <<"X", "U", "S", "D">>}

WRAPPED_TOKENS ==
    {<<"W", "B", "T", "C">>, <<"W", "E", "T", "H">>,
     <<"W", "B", "N", "B">>, <<"W", "B", "E", "T", "H">>,
     <<"W", "B", "C", "H">>, <<"W", "L", "T", "C">>,
     <<"W", "Z", "E", "C">>, <<"W", "M", "A", "T", "I", "C">>,
     <<"W", "A", "V", "A", "X">>, <<"W", "F", "T", "M">>,
     <<"W", "O", "N", "E">>, <<"W", "C", "R", "O">>,
     <<"W", "N", "E", "A", "R">>, <<"W", "K", "A", "V", "A">>,
     <<"W", "X", "R", "P">>, <<"W", "A", "D", "A">>,
     <<"W", "D", "O", "T">>, <<"W", "S", "O", "L">>,
     <<"W", "T", "R", "X">>, <<"W", "E", "O", "S">>,
     <<"W", "X", "L", "M">>, <<"W", "A", "L", "G", "O">>,
     <<"W", "I", "C", "P">>, <<"W", "E", "G", "L", "D">>,
     <<"W", "X", "T", "Z">>, <<"W", "F", "I", "L">>,
     <<"W", "A", "X", "L">>, <<"W", "F", "L", "O", "W">>,
     <<"W", "M", "I", "N", "A">>, <<"W", "G", "L", "M", "R">>,
     <<"W", "K", "L", "A", "Y">>, <<"W", "R", "U", "N", "E">>,
     <<"W", "Z", "I", "L">>, <<"W", "A", "R">>,
     <<"W", "R", "O", "S", "E">>, <<"W", "V", "E", "T">>,
     <<"W", "Q", "T", "U", "M">>, <<"W", "N", "E", "O">>,
     <<"W", "H", "B", "A", "R">>, <<"W", "Z", "R", "X">>,
     <<"W", "B", "A", "T">>, <<"W", "E", "N", "J">>,
     <<"W", "C", "H", "Z">>, <<"W", "M", "A", "N", "A">>,
     <<"W", "G", "R", "T">>, <<"W", "1", "I", "N", "C", "H">>,
     <<"W", "C", "O", "M", "P">>, <<"W", "S", "N", "X">>,
     <<"W", "C", "R", "V">>}

WBTC == <<"W", "B", "T", "C">>
WIF == <<"W", "I", "F">>
ETHUSDT == ETH \o USDT
BNBUSDT == BNB \o USDT

is_stablecoin_pair(base_asset, quote_asset) ==
    base_asset \in STABLECOINS /\ quote_asset \in STABLECOINS

\* membership in the set of wrapped tokens alone
IsListedWrappedToken(asset) == asset \in WRAPPED_TOKENS

\* asset in WRAPPED_TOKENS or asset.startswith('W') and len(asset) > 2
is_wrapped_token(asset) ==
    \/ asset \in WRAPPED_TOKENS
    \/ /\ Len(asset) >= 1 /\ asset[1] = "W"
       /\ Len(asset) > 2

\* self.quote_prices_usd.get(quote_asset, Decimal('0'))
QuotePriceOf(prices, quote_asset) ==
    IF quote_asset \in DOMAIN prices THEN prices[quote_asset] ELSE 0

calculate_volume_usd(volume, quote_asset, prices) ==
    volume * QuotePriceOf(prices, quote_asset)

\* self.quote_prices_usd[asset] = price
SetPrice(prices, asset, price) ==
    [a \in (DOMAIN prices) \cup {asset} |-> IF a = asset THEN price ELSE prices[a]]

RECURSIVE update_quote_prices(_, _)
update_quote_prices(prices, ts) ==
    IF ts = <<>> THEN prices
    ELSE LET ticker == Head(ts)
             updated == IF ticker.symbol = BTCUSDT THEN SetPrice(prices, BTC, ticker.lastPrice)
                        ELSE IF ticker.symbol = ETHUSDT THEN SetPrice(prices, ETH, ticker.lastPrice)
                        ELSE IF ticker.symbol = BNBUSDT THEN SetPrice(prices, BNB, ticker.lastPrice)
                        ELSE prices
         IN update_quote_prices(updated, Tail(ts))

\* ticker_map.get(symbol): the last ticker of the symbol, <<>> for None
TickerOf(ts, sym) ==
    LET hits == {k \in 1..Len(ts) : ts[k].symbol = sym}
    IN IF hits = {} THEN <<>>
       ELSE <<ts[CHOOSE k \in hits : \A m \in hits : m <= k]>>

\* the pair the loop appends for symbol_info, <<>> when it continues
FilteredPair(symbol_info, ts, prices) ==
    LET ticker == TickerOf(ts, symbol_info.symbol)
        quote_volume == IF ticker = <<>> THEN 0 ELSE GetOrZero(ticker[1].quoteVolume)
        volume_usd == calculate_volume_usd(quote_volume, symbol_info.quoteAsset, prices)
    IN IF symbol_info.status # "TRADING" \/ ~symbol_info.isSpotTradingAllowed THEN <<>>
       ELSE IF is_stablecoin_pair(symbol_info.baseAsset, symbol_info.quoteAsset) THEN <<>>
       ELSE IF is_wrapped_token(symbol_info.baseAsset) THEN <<>>
       ELSE IF ticker = <<>> THEN <<>>
       ELSE IF volume_usd < MIN_VOLUME_USD THEN <<>>
       ELSE <<[symbol |-> symbol_info.symbol,
               base_asset |-> symbol_info.baseAsset,
               quote_asset |-> symbol_info.quoteAsset,
               volume_24h_usd |-> volume_usd,
               quote_price_usd |-> QuotePriceOf(prices, symbol_info.quoteAsset)]>>

RECURSIVE FilterLoop(_, _, _)
FilterLoop(infos, ts, prices) ==
    IF infos = <<>> THEN <<>>
    ELSE FilteredPair(Head(infos), ts, prices) \o FilterLoop(Tail(infos), ts, prices)

\* ---- the inputs of one call ----
FilterBases == {BTC, USDC, WBTC, WIF, <<"W">>}
FilterQuotes == {USDT, BTC}
SymbolInfos ==
    {[symbol |-> b \o q, status |-> st, isSpotTradingAllowed |-> spot,
      baseAsset |-> b, quoteAsset |-> q] :
        b \in FilterBases, q \in FilterQuotes, st \in {"TRADING", "BREAK"},
        spot \in BOOLEAN}

\* the tickers that matter to the call: those of the listed symbols and the
\* one that sets the price of BTC
TickersFor(infos) ==
    [symbol : {infos[k].symbol : k \in 1..Len(infos)} \cup {BTCUSDT},
     quoteVolume : {500000, 1000000},
     lastPrice : {2}]

\* quote_prices_usd of a new analyzer
InitialQuotePrices ==
    [a \in {USDT, USDC, BUSD, <<"F", "D", "U", "S", "D">>} |-> 1]

InitFilter ==
    /\ ChunkIdle
    /\ CycleIdle
    /\ PageIdle
    /\ SemIdle
    /\ WaitIdle
    /\ CacheIdle
    /\ FindIdle
    /\ RunIdle
    /\ GocIdle
    /\ HttpIdle
    /\ RLIdle
    /\ DbIdle
    /\ PairIdle
    /\ CollIdle
    /\ SaveIdle
    /\ ExtractIdle
    /\ exchange_info \in SeqsUpTo(SymbolInfos, MaxSymbols)
    /\ tickers \in SeqsUpTo(TickersFor(exchange_info), MaxTickers)
    /\ quote_prices_usd = InitialQuotePrices
    /\ filtered_pairs = <<>>
    /\ filterpc = "call"

FilterTradingPairs ==
    /\ filterpc = "call"
    /\ quote_prices_usd' = update_quote_prices(quote_prices_usd, tickers)
    /\ filtered_pairs' = FilterLoop(exchange_info, tickers,
                                    update_quote_prices(quote_prices_usd, tickers))
    /\ filterpc' = "returned"
    /\ UNCHANGED <<exchange_info, tickers>>
    /\ UNCHANGED notFilter

NextFilter == FilterTradingPairs

SpecFilter == InitFilter /\ [][NextFilter]_vars

\* C13: no pair returned has both assets among the stablecoins, or a base
\* asset that is a listed wrapped token or starts with W and is longer than
\* two characters; every pair returned is listed as TRADING and open to spot
\* trading and has a quote volume that, in USD, is at least MIN_VOLUME_USD.
C13_FilteredPairsAreEligible ==
    filterpc = "returned" =>
        \A i \in 1..Len(filtered_pairs) :
            LET pair == filtered_pairs[i]
            IN /\ ~(pair.base_asset \in STABLECOINS /\ pair.quote_asset \in STABLECOINS)
               /\ pair.base_asset \notin WRAPPED_TOKENS
               /\ ~(Len(pair.base_asset) > 2 /\ pair.base_asset[1] = "W")
               /\ \E k \in 1..Len(exchange_info) :
                     /\ exchange_info[k].symbol = pair.symbol
                     /\ exchange_info[k].status = "TRADING"
                     /\ exchange_info[k].isSpotTradingAllowed
               /\ \E t \in 1..Len(tickers) :
                     /\ tickers[t].symbol = pair.symbol
                     /\ pair.volume_24h_usd = tickers[t].quoteVolume * pair.quote_price_usd
               /\ pair.volume_24h_usd >= MIN_VOLUME_USD

\* a tradable pair whose base asset starts with W without being listed, with
\* a volume above the floor, was left out
C13_Witness ==
    /\ filterpc = "returned"
    /\ Len(exchange_info) >= 1
    /\ exchange_info[1].baseAsset = WIF
    /\ exchange_info[1].quoteAsset = USDT
    /\ exchange_info[1].status = "TRADING"
    /\ exchange_info[1].isSpotTradingAllowed
    /\ \E t \in 1..Len(tickers) :
          tickers[t].symbol = exchange_info[1].symbol /\ tickers[t].quoteVolume >= MIN_VOLUME_USD
    /\ \A i \in 1..Len(filtered_pairs) : filtered_pairs[i].symbol # exchange_info[1].symbol


(***************************************************************************)
(* One API call with its retries: BinanceClient.get_recent_trades of       *)
(* src/test.py, and an accessor over the tenacity-wrapped _make_request of *)
(* BinanceAPI, BybitAPI and CoinMarketCapAPI.  Time is counted in units of *)
(* 0.2 s, the delay between two requests of BinanceClient.                 *)
(***************************************************************************)
Clients == {"BinanceClient", "BinanceAPI", "BybitAPI", "CoinMarketCapAPI"}

\* the clients whose _make_request is wrapped by @retry
Tenacity(c) == c # "BinanceClient"

Seconds(n) == n * 5

DELAY_BETWEEN_REQUESTS == 1      \* 0.2 s
RETRY_DELAY == 5                 \* seconds
MAX_RETRIES == 3
REQUEST_WEIGHT_TRADES == 10
StopAfterAttempt == 3            \* stop_after_attempt(3)
WaitMultiplier == 1              \* wait_exponential(multiplier=1, min=4, max=10)
WaitMin == 4
WaitMax == 10
BinanceRetryAfterDefault == 60   \* response.headers.get('Retry-After', 60)
BybitRateLimitSleep == 10        \* asyncio.sleep(10)
CmcRateLimitSleep == 60          \* asyncio.sleep(60)

\* tenacity's wait_exponential after attempt attempt_number, in seconds
wait_exponential(attempt_number) ==
    LET result == WaitMultiplier * 2^(attempt_number - 1)
        capped == IF result < WaitMax THEN result ELSE WaitMax
    IN IF capped < WaitMin THEN WaitMin ELSE capped

\* What a request meets: an HTTP status ("busy" is a 200 whose body carries an
\* error code, "badjson" a 200 whose body cannot be decoded), a timeout or a
\* connection error; retry_after is the Retry-After header, in seconds.
Statuses == {"200", "busy", "badjson", "429", "418", "400", "500", "timeout", "connerror"}
HttpResponses ==
    {r \in [status : Statuses, retry_after : {None} \cup 1..MaxRetryAfter] :
        r.retry_after # None => r.status \in {"429", "418"}}

\* int(response.headers.get('Retry-After', default))
RetryAfter(resp, default) ==
    IF resp.retry_after = None THEN default ELSE resp.retry_after

\* the fixed cool-down of a client for a 429 without the header, in seconds
ClientDefault(c) ==
    IF c = "BinanceClient" THEN RETRY_DELAY
    ELSE IF c = "BinanceAPI" THEN BinanceRetryAfterDefault
    ELSE IF c = "BybitAPI" THEN BybitRateLimitSleep
    ELSE CmcRateLimitSleep

\* whether the client takes the response for a rate-limit response
IsRateLimit(c, resp) ==
    IF c = "BinanceClient" THEN resp.status \in {"429", "418"} ELSE resp.status = "429"

\* what the server advertised with a rate-limit response, in units
Advertised(c, resp) == Seconds(RetryAfter(resp, ClientDefault(c)))

Retry(sleep) == [retry |-> TRUE, sleep |-> sleep, outcome |-> ""]
Over(outcome, sleep) == [retry |-> FALSE, sleep |-> sleep, outcome |-> outcome]

\* BinanceClient.get_recent_trades after the response of attempt retry_count
GetRecentTradesStep(resp, rc) ==
    IF resp.status \in {"429", "418"}
       THEN IF rc < MAX_RETRIES
               THEN Retry(Seconds(RetryAfter(resp, RETRY_DELAY)))
               ELSE Over("empty", 0)
    ELSE IF resp.status = "400" THEN Over("empty", 0)
    ELSE IF resp.status \in {"200", "busy"} THEN Over("json", 0)
    ELSE IF rc < MAX_RETRIES THEN Retry(Seconds(RETRY_DELAY))
    ELSE Over("empty", 0)

\* the sleep _make_request takes before it raises for a 429, in seconds
RateLimitSleep(c, resp) ==
    IF resp.status # "429" THEN 0
    ELSE IF c = "BinanceAPI" THEN RetryAfter(resp, BinanceRetryAfterDefault)
    ELSE IF c = "BybitAPI" THEN BybitRateLimitSleep
    ELSE CmcRateLimitSleep

\* the statuses for which _make_request returns the body
MakeRequestReturns(c, resp) ==
    IF c = "BinanceAPI" THEN resp.status \in {"200", "busy"} ELSE resp.status = "200"

\* _make_request under @retry after the response of attempt retry_count + 1:
\* ClientError and TimeoutError are retried, anything else is raised at once
MakeRequestStep(c, resp, rc) ==
    IF MakeRequestReturns(c, resp) THEN Over("json", 0)
    ELSE IF resp.status = "badjson" THEN Over("exception", 0)
    ELSE IF rc + 1 < StopAfterAttempt
            THEN Retry(Seconds(RateLimitSleep(c, resp) + wait_exponential(rc + 1)))
    ELSE Over("RetryError", Seconds(RateLimitSleep(c, resp)))

\* an accessor without its except clause
AccessorWithoutExcept(outcome) ==
    IF outcome = "json" THEN "value"
    ELSE IF outcome = "empty" THEN "absent"
    ELSE "raised"

\* the accessor around _make_request: try ... except Exception: return None
Accessor(outcome) == IF outcome = "json" THEN "value" ELSE "absent"

InitHttp ==
    /\ ChunkIdle
    /\ CycleIdle
    /\ PageIdle
    /\ SemIdle
    /\ WaitIdle
    /\ CacheIdle
    /\ FindIdle
    /\ RunIdle
    /\ GocIdle
    /\ RLIdle
    /\ DbIdle
    /\ PairIdle
    /\ CollIdle
    /\ SaveIdle
    /\ ExtractIdle
    /\ FilterIdle
    /\ client \in Clients
    /\ httppc = "attempt"
    /\ retry_count = 0
    /\ acquired = 0
    /\ slept = 0
    /\ last_status = ""
    /\ cooldown = None
    /\ http_log = <<>>
    /\ call_result = ""

\* test.py: await self.rate_limiter.acquire(REQUEST_WEIGHT_TRADES) has
\* returned, then the delay between requests
AcquireWeight ==
    /\ httppc = "attempt"
    /\ ~Tenacity(client)
    /\ acquired' = REQUEST_WEIGHT_TRADES
    /\ slept' = slept + DELAY_BETWEEN_REQUESTS
    /\ httppc' = "send"
    /\ UNCHANGED <<client, retry_count, last_status, cooldown, http_log, call_result>>
    /\ UNCHANGED notHttp

\* src/api: async with self.rate_limiter, an asyncio.Semaphore
EnterSemaphore ==
    /\ httppc = "attempt"
    /\ Tenacity(client)
    /\ httppc' = "send"
    /\ UNCHANGED <<client, retry_count, acquired, slept, last_status, cooldown, http_log,
                   call_result>>
    /\ UNCHANGED notHttp

\* session.get is sent and answered with resp, and the client deals with it
SendRequest(resp) ==
    /\ httppc = "send"
    /\ LET step == IF Tenacity(client) THEN MakeRequestStep(client, resp, retry_count)
                   ELSE GetRecentTradesStep(resp, retry_count)
       IN /\ http_log' = Append(http_log, [weight |-> acquired,
                                           after |-> last_status,
                                           advertised |-> cooldown,
                                           waited |-> slept,
                                           status |-> resp.status])
          /\ slept' = step.sleep
          /\ retry_count' = IF step.retry THEN retry_count + 1 ELSE retry_count
          /\ httppc' = IF step.retry THEN "attempt" ELSE "done"
          /\ call_result' = IF step.retry THEN "" ELSE Accessor(step.outcome)
    /\ acquired' = 0
    /\ last_status' = resp.status
    /\ cooldown' = IF IsRateLimit(client, resp) THEN Advertised(client, resp) ELSE None
    /\ UNCHANGED client
    /\ UNCHANGED notHttp

NextHttp ==
    \/ AcquireWeight
    \/ EnterSemaphore
    \/ \E resp \in HttpResponses : SendRequest(resp)

SpecHttp == InitHttp /\ [][NextHttp]_vars


\* C14: every HTTP request, retries included, is sent after an acquire of the
\* rate limiter for the weight of its endpoint has returned for it.
C14_AcquireBeforeEveryRequest ==
    \A i \in 1..Len(http_log) :
        /\ http_log[i].weight > 0
        /\ client = "BinanceClient" => http_log[i].weight = REQUEST_WEIGHT_TRADES

\* C15: the request that follows a 429 response is sent exactly the advertised
\* cool-down after it: the Retry-After header, or the client's default.
C15_WaitsExactlyTheCooldown ==
    \A i \in 1..Len(http_log) :
        http_log[i].after = "429" => http_log[i].waited = http_log[i].advertised

\* C16: one call sends at most 3 HTTP requests.
C16_AtMostThreeAttempts == Len(http_log) <= 3

\* C17: a 400 response ends the call at once: it is the last request of the
\* call, the result is absent and no delay is taken.
C17_BadRequestIsNotRetried ==
    \A i \in 1..Len(http_log) :
        http_log[i].status = "400" =>
            /\ i = Len(http_log)
            /\ httppc = "done"
            /\ call_result = "absent"
            /\ slept = 0

\* the requests of the call that did not give the client a body it returns
FailedRequests ==
    {i \in 1..Len(http_log) :
        IF client = "BinanceClient" THEN http_log[i].status \notin {"200", "busy"}
        ELSE ~MakeRequestReturns(client, [status |-> http_log[i].status])}

\* C18: a call never raises, and a call whose every attempt failed ends with
\* an absent value.
C18_ExhaustedRetriesGiveAbsent ==
    /\ call_result # "raised"
    /\ httppc = "done" =>
          /\ call_result \in {"value", "absent"}
          /\ FailedRequests = 1..Len(http_log) => call_result = "absent"

\* an accessor whose three attempts all timed out has returned None
C18_Witness ==
    /\ httppc = "done"
    /\ client = "BinanceAPI"
    /\ Len(http_log) = StopAfterAttempt
    /\ \A i \in 1..Len(http_log) : http_log[i].status = "timeout"
    /\ call_result = "absent"


(***************************************************************************)
(* Database.get_or_create_token and get_or_create_futures_pair of          *)
(* src/db/database.py, one statement at a time: every task runs its SELECT *)
(* and its INSERT as separate steps, on the tables tokens and              *)
(* futures_pairs.  The schema is not part of the sources, so the tables    *)
(* may or may not have a unique key on the looked-up columns.              *)
(***************************************************************************)
\* everything but the two tables and the variables of this part
notGocTables == <<dbVars, rlVars, pairVars, collVars, extractVars, filterVars, httpVars,
                  exchange_data, cmc_btc_price, cmc_data, data_index, saved_count,
                  error_count, futures_data, savepc, save_warned,
             runVars,
             findVars,
             cacheVars,
             waitVars,
             semVars,
             pageVars,
             cycleVars,
             chunkVars>>

\* the arguments the calls are made with
GocKeys(fn) ==
    IF fn = "token" THEN {[symbol |-> s] : s \in {BTC, ETH}}
    ELSE {[token_id |-> 1, exchange |-> ex, pair_symbol |-> BTCUSDT] : ex \in Exchanges}

\* the SELECT of the function called: the id of the row, 0 when there is none
GocSelect(fn, key) ==
    IF fn = "token" THEN SelectTokenId(tokens, key.symbol)
    ELSE SelectPairId(futures_pairs, key.exchange, key.pair_symbol)

\* the rows of the table that have the looked-up columns of key
RowsFor(fn, key) ==
    IF fn = "token" THEN {k \in 1..Len(tokens) : tokens[k] = key.symbol}
    ELSE {k \in 1..Len(futures_pairs) :
             /\ futures_pairs[k].exchange = key.exchange
             /\ futures_pairs[k].pair_symbol = key.pair_symbol}

Returns(key, id, raised) == [key |-> key, id |-> id, raised |-> raised]

InitGoc ==
    /\ ChunkIdle
    /\ CycleIdle
    /\ PageIdle
    /\ SemIdle
    /\ WaitIdle
    /\ CacheIdle
    /\ FindIdle
    /\ RunIdle
    /\ RLIdle
    /\ DbIdle
    /\ PairIdle
    /\ CollIdle
    /\ SaveIdle
    /\ ExtractIdle
    /\ FilterIdle
    /\ HttpIdle
    /\ goc_fn \in {"token", "pair"}
    /\ unique_keys \in BOOLEAN
    /\ gocpc = [t \in Tasks |-> "idle"]
    /\ goc_key = [t \in Tasks |-> <<>>]
    /\ goc_returns = <<>>
    /\ calls_started = 0
    /\ overlapped = FALSE

\* task t calls the function with the arguments key
GocCall(t, key) ==
    /\ gocpc[t] = "idle"
    /\ calls_started < MaxCalls
    /\ gocpc' = [gocpc EXCEPT ![t] = "select"]
    /\ goc_key' = [goc_key EXCEPT ![t] = key]
    /\ calls_started' = calls_started + 1
    /\ overlapped' = (overlapped \/ \E u \in Tasks : u # t /\ gocpc[u] # "idle")
    /\ UNCHANGED <<goc_fn, unique_keys, goc_returns, tokens, futures_pairs>>
    /\ UNCHANGED notGocTables

\* the SELECT finds the row: return result['id']
GocSelectFound(t) ==
    /\ gocpc[t] = "select"
    /\ GocSelect(goc_fn, goc_key[t]) # 0
    /\ goc_returns' = Append(goc_returns,
                             Returns(goc_key[t], GocSelect(goc_fn, goc_key[t]), FALSE))
    /\ gocpc' = [gocpc EXCEPT ![t] = "idle"]
    /\ goc_key' = [goc_key EXCEPT ![t] = <<>>]
    /\ UNCHANGED <<goc_fn, unique_keys, calls_started, overlapped, tokens, futures_pairs>>
    /\ UNCHANGED notGocTables

\* the SELECT finds no row: the INSERT is next
GocSelectMissing(t) ==
    /\ gocpc[t] = "select"
    /\ GocSelect(goc_fn, goc_key[t]) = 0
    /\ gocpc' = [gocpc EXCEPT ![t] = "insert"]
    /\ UNCHANGED <<goc_fn, unique_keys, goc_key, goc_returns, calls_started, overlapped,
                   tokens, futures_pairs>>
    /\ UNCHANGED notGocTables

\* the INSERT adds the row: return cursor.lastrowid
GocInsert(t) ==
    /\ gocpc[t] = "insert"
    /\ ~(unique_keys /\ RowsFor(goc_fn, goc_key[t]) # {})
    /\ IF goc_fn = "token"
          THEN /\ tokens' = Append(tokens, goc_key[t].symbol)
               /\ goc_returns' = Append(goc_returns,
                                        Returns(goc_key[t], Len(tokens) + 1, FALSE))
               /\ UNCHANGED futures_pairs
          ELSE /\ futures_pairs' = Append(futures_pairs,
                                          [token_id |-> goc_key[t].token_id,
                                           exchange |-> goc_key[t].exchange,
                                           pair_symbol |-> goc_key[t].pair_symbol,
                                           contract_type |-> "PERPETUAL"])
               /\ goc_returns' = Append(goc_returns,
                                        Returns(goc_key[t], Len(futures_pairs) + 1, FALSE))
               /\ UNCHANGED tokens
    /\ gocpc' = [gocpc EXCEPT ![t] = "idle"]
    /\ goc_key' = [goc_key EXCEPT ![t] = <<>>]
    /\ UNCHANGED <<goc_fn, unique_keys, calls_started, overlapped>>
    /\ UNCHANGED notGocTables

\* the INSERT meets a row with the same unique key: the call raises
GocInsertRaises(t) ==
    /\ gocpc[t] = "insert"
    /\ unique_keys
    /\ RowsFor(goc_fn, goc_key[t]) # {}
    /\ goc_returns' = Append(goc_returns, Returns(goc_key[t], None, TRUE))
    /\ gocpc' = [gocpc EXCEPT ![t] = "idle"]
    /\ goc_key' = [goc_key EXCEPT ![t] = <<>>]
    /\ UNCHANGED <<goc_fn, unique_keys, calls_started, overlapped, tokens, futures_pairs>>
    /\ UNCHANGED notGocTables

NextGoc ==
    \/ \E t \in Tasks : \E key \in GocKeys(goc_fn) : GocCall(t, key)
    \/ \E t \in Tasks : GocSelectFound(t)
    \/ \E t \in Tasks : GocSelectMissing(t)
    \/ \E t \in Tasks : GocInsert(t)
    \/ \E t \in Tasks : GocInsertRaises(t)

SpecGoc == InitGoc /\ [][NextGoc]_vars

\* no call raised, the calls with the same arguments returned the same id,
\* and there is exactly one row for the arguments of every call that is over
OneRowOneId ==
    /\ \A i \in 1..Len(goc_returns) :
          /\ ~goc_returns[i].raised
          /\ Cardinality(RowsFor(goc_fn, goc_returns[i].key)) = 1
    /\ \A i, j \in 1..Len(goc_returns) :
          goc_returns[i].key = goc_returns[j].key =>
              goc_returns[i].id = goc_returns[j].id

\* C19: calls made one after another with the same arguments return the same
\* id and leave exactly one row for them, and no two rows of futures_pairs
\* have the same exchange and pair_symbol.
C19_SequentialCallsAreIdempotent ==
    ~overlapped =>
        /\ OneRowOneId
        /\ \A k, m \in 1..Len(futures_pairs) :
              (/\ futures_pairs[k].exchange = futures_pairs[m].exchange
               /\ futures_pairs[k].pair_symbol = futures_pairs[m].pair_symbol) => k = m

\* MaxCalls calls with the same arguments were made one after another
C19_Witness ==
    /\ ~overlapped
    /\ Len(goc_returns) = MaxCalls
    /\ \A i \in 1..MaxCalls : goc_returns[i].key = goc_returns[1].key

\* C20: when the calls of two tasks with the same arguments interleave, there
\* is afterwards exactly one row for them, both calls return the same id and
\* neither raises.
C20_ConcurrentCallsAreIdempotent ==
    (\A t \in Tasks : gocpc[t] = "idle") => OneRowOneId

(***************************************************************************)
(* One run of the collector: FuturesDataCollector.run with initialize,     *)
(* collect_exchange_data, collect_spot_exchange_data, collect_cmc_data,    *)
(* process_and_save_data and cleanup, and main around it (src/main.py).    *)
(***************************************************************************)
\* the order of futures_tasks
ExchangeOrder == <<"Binance", "Bybit">>

\* what collect_pair_data gave for the pairs of one exchange
RunRecordsOf(ex) ==
    SeqsUpTo({[exchange |-> ex, symbol |-> s] : s \in {BTCUSDT, XYZ}}, MaxRunRecords)

\* an initialize that opens the pool before it looks at the configuration
InitializeConnectFirst(valid, up) ==
    [connects |-> 1,
     pool |-> up,
     raised |-> IF ~up THEN "connect" ELSE IF ~valid THEN "config" ELSE ""]

\* initialize: self.config.validate(), then await self.db.connect(); either
\* may raise, and what is raised is logged and raised again
initialize(valid, up) ==
    IF ~valid THEN [connects |-> 0, pool |-> FALSE, raised |-> "config"]
    ELSE IF ~up THEN [connects |-> 1, pool |-> FALSE, raised |-> "connect"]
    ELSE [connects |-> 1, pool |-> TRUE, raised |-> ""]

InitRun ==
    /\ ChunkIdle
    /\ CycleIdle
    /\ PageIdle
    /\ SemIdle
    /\ WaitIdle
    /\ CacheIdle
    /\ FindIdle
    /\ DbIdle /\ RLIdle /\ PairIdle /\ CollIdle /\ SaveIdle /\ ExtractIdle
    /\ FilterIdle /\ HttpIdle /\ GocIdle
    /\ config_valid \in BOOLEAN
    /\ db_up \in BOOLEAN
    /\ runpc = "initialize"
    /\ db_connects = 0
    /\ pool = FALSE
    /\ requests_sent = {}
    /\ ex_state = [ex \in Exchanges |-> "created"]
    /\ ex_result = [ex \in Exchanges |-> Raised]
    /\ api_errors = <<>>
    /\ all_futures_data = <<>>
    /\ run_saved = <<>>
    /\ run_failed = 0
    /\ run_error = ""
    /\ exit_code = None

\* await self.initialize()
Initialize ==
    /\ runpc = "initialize"
    /\ LET i == initialize(config_valid, db_up)
       IN /\ db_connects' = db_connects + i.connects
          /\ pool' = i.pool
          /\ run_error' = i.raised
          /\ runpc' = IF i.raised = "" THEN "futures" ELSE "cleanup"
    /\ UNCHANGED <<config_valid, db_up, requests_sent, ex_state, ex_result, api_errors,
                   all_futures_data, run_saved, run_failed, exit_code>>
    /\ UNCHANGED notRun

\* collect_exchange_data(ex): pairs = await api.get_futures_pairs(), which
\* sends the exchangeInfo request and raises when it fails
DiscoverPairs(ex) ==
    /\ runpc = "futures"
    /\ ex_state[ex] = "created"
    /\ requests_sent' = requests_sent \cup {ex}
    /\ \E ok \in BOOLEAN :
          ex_state' = [ex_state EXCEPT ![ex] = IF ok THEN "collecting" ELSE "failed"]
    /\ UNCHANGED <<config_valid, db_up, runpc, db_connects, pool, ex_result, api_errors,
                   all_futures_data, run_saved, run_failed, run_error, exit_code>>
    /\ UNCHANGED notRun

\* collect_exchange_data(ex): the batches are over, return all_data
ReturnAllData(ex) ==
    /\ runpc = "futures"
    /\ ex_state[ex] = "collecting"
    /\ \E recs \in RunRecordsOf(ex) :
          ex_result' = [ex_result EXCEPT ![ex] = Returned(recs, {})]
    /\ ex_state' = [ex_state EXCEPT ![ex] = "done"]
    /\ UNCHANGED <<config_valid, db_up, runpc, db_connects, pool, requests_sent,
                   api_errors, all_futures_data, run_saved, run_failed, run_error,
                   exit_code>>
    /\ UNCHANGED notRun

\* collect_exchange_data(ex), the except clause: await save_api_error(...),
\* then return [].  save_api_error has no handler of its own: when its INSERT
\* fails the exception leaves collect_exchange_data.
ExceptSaveApiError(ex) ==
    /\ runpc = "futures"
    /\ ex_state[ex] = "failed"
    /\ \E written \in BOOLEAN :
          IF written
             THEN /\ api_errors' = Append(api_errors, ex)
                  /\ ex_result' = [ex_result EXCEPT ![ex] = Returned(<<>>, {})]
             ELSE /\ api_errors' = api_errors
                  /\ ex_result' = [ex_result EXCEPT ![ex] = Raised]
    /\ ex_state' = [ex_state EXCEPT ![ex] = "done"]
    /\ UNCHANGED <<config_valid, db_up, runpc, db_connects, pool, requests_sent,
                   all_futures_data, run_saved, run_failed, run_error, exit_code>>
    /\ UNCHANGED notRun

\* futures_results = await asyncio.gather(*futures_tasks,
\* return_exceptions=True) and the loop that merges the results
GatherFutures ==
    /\ runpc = "futures"
    /\ LET batch == 1..Len(ExchangeOrder)
           g == Gather(batch, [k \in batch |-> ex_result[ExchangeOrder[k]]])
       IN /\ \/ \A ex \in Exchanges : ex_state[ex] = "done"
             \/ g.raised /\ \E ex \in Exchanges : ex_state[ex] = "done"
          /\ IF g.raised
                THEN /\ run_error' = "gather"
                     /\ runpc' = "cleanup"
                     /\ UNCHANGED all_futures_data
                ELSE /\ all_futures_data' = Contribution(g.results)
                     /\ runpc' = "spot"
                     /\ UNCHANGED run_error
    /\ UNCHANGED <<config_valid, db_up, db_connects, pool, requests_sent, ex_state,
                   ex_result, api_errors, run_saved, run_failed, exit_code>>
    /\ UNCHANGED notRun

\* the two collect_spot_exchange_data tasks and their gather.  No client of
\* src/api has a get_spot_pairs, so each task goes to its except clause
\* before any request: save_api_error, then []; when save_api_error raises
\* the gather keeps the exception.  all_spot_data is empty either way.
CollectSpot ==
    /\ runpc = "spot"
    /\ \E written \in SUBSET Exchanges :
          api_errors' = api_errors \o
              SelectSeq(ExchangeOrder, LAMBDA ex : ex \in written)
    /\ runpc' = "cmc"
    /\ UNCHANGED <<config_valid, db_up, db_connects, pool, requests_sent, ex_state,
                   ex_result, all_futures_data, run_saved, run_failed, run_error,
                   exit_code>>
    /\ UNCHANGED notRun

\* cmc_data = await self.collect_cmc_data(list(token_symbols)): the accessors
\* of the client catch their own failures; when the try block raises all the
\* same, the except clause saves the error and returns {}, and an exception
\* of save_api_error leaves run
CollectCmc ==
    /\ runpc = "cmc"
    /\ requests_sent' = requests_sent \cup {"CoinMarketCap"}
    /\ \E raises, written \in BOOLEAN :
          IF ~raises
             THEN /\ runpc' = "save"
                  /\ UNCHANGED <<api_errors, run_error>>
          ELSE IF written
             THEN /\ api_errors' = Append(api_errors, "CoinMarketCap")
                  /\ runpc' = "save"
                  /\ UNCHANGED run_error
             ELSE /\ run_error' = "cmc"
                  /\ runpc' = "cleanup"
                  /\ UNCHANGED api_errors
    /\ UNCHANGED <<config_valid, db_up, db_connects, pool, ex_state, ex_result,
                   all_futures_data, run_saved, run_failed, exit_code>>
    /\ UNCHANGED notRun

\* the records of all_futures_data with a token symbol
Savable == {k \in 1..Len(all_futures_data) :
               ~FalsyStr(extract_token_symbol(all_futures_data[k].symbol))}

\* the records of data from position k on whose position is in keep
RECURSIVE RecordsAt(_, _, _)
RecordsAt(data, keep, k) ==
    IF k > Len(data) THEN <<>>
    ELSE (IF k \in keep THEN <<data[k]>> ELSE <<>>) \o RecordsAt(data, keep, k + 1)

\* process_and_save_data: the records without a token symbol are passed
\* over, those in failing raise and are counted, the others are saved;
\* process_and_save_spot_data then has nothing to do
ProcessAndSave ==
    /\ runpc = "save"
    /\ \E failing \in SUBSET Savable :
          /\ run_saved' = RecordsAt(all_futures_data, Savable \ failing, 1)
          /\ run_failed' = Cardinality(failing)
    /\ runpc' = "cleanup"
    /\ UNCHANGED <<config_valid, db_up, db_connects, pool, requests_sent, ex_state,
                   ex_result, api_errors, all_futures_data, run_error, exit_code>>
    /\ UNCHANGED notRun

\* finally: await self.cleanup(); then main: an exception that left run is
\* logged and the process ends with sys.exit(1)
CleanupAndExit ==
    /\ runpc = "cleanup"
    /\ pool' = FALSE
    /\ exit_code' = IF run_error = "" THEN 0 ELSE 1
    /\ runpc' = "exited"
    /\ UNCHANGED <<config_valid, db_up, db_connects, requests_sent, ex_state, ex_result,
                   api_errors, all_futures_data, run_saved, run_failed, run_error>>
    /\ UNCHANGED notRun

NextRun ==
    \/ Initialize
    \/ \E ex \in Exchanges : DiscoverPairs(ex)
    \/ \E ex \in Exchanges : ReturnAllData(ex)
    \/ \E ex \in Exchanges : ExceptSaveApiError(ex)
    \/ GatherFutures
    \/ CollectSpot
    \/ CollectCmc
    \/ ProcessAndSave
    \/ CleanupAndExit

SpecRun == InitRun /\ [][NextRun]_vars

\* C22: save_api_error never raises: an exchange whose collection failed
\* still returns its empty list and no exception of save_api_error ends the
\* run.
C22_SaveApiErrorNeverRaises ==
    /\ \A ex \in Exchanges : ex_state[ex] = "done" => ~ex_result[ex].raised
    /\ run_error # "cmc"


\* C24: when the configuration is not valid the run ends without a call of
\* create_pool and without a request to an exchange or to CoinMarketCap, and
\* the configuration error is raised by initialize only.
C24_ConfigErrorBeforeAnyConnection ==
    /\ ~config_valid =>
          /\ db_connects = 0
          /\ ~pool
          /\ requests_sent = {}
          /\ runpc \in {"initialize", "cleanup", "exited"}
    /\ run_error = "config" =>
          /\ ~config_valid
          /\ \A ex \in Exchanges : ex_state[ex] = "created"

\* a run that the configuration error has ended
C24_Witness ==
    /\ runpc = "exited"
    /\ run_error = "config"
    /\ exit_code = 1

\* C25: an exception that makes the whole run fail is caught and logged and
\* the process goes on to a next cycle: it never ends the process.
C25_CycleFailureNeverEndsTheProcess ==
    run_error # "" => runpc # "exited"

\* what collect_exchange_data(ex) added to the merged list
ContributionOf(ex) ==
    IF ex_result[ex].raised THEN <<>> ELSE ex_result[ex].value

\* C28: an exchange whose collection failed, its error record included, adds
\* nothing to the merged list, the records of the other exchange are all in
\* it, and process_and_save_data is given them: it saves every one of them
\* that has a token symbol and whose own save did not fail.
C28_ExchangesAreIndependent ==
    /\ runpc \notin {"initialize", "futures"} /\ run_error \notin {"config", "connect"} =>
          all_futures_data = ContributionOf("Binance") \o ContributionOf("Bybit")
    /\ runpc \in {"cleanup", "exited"} /\ run_error = "" =>
          /\ Len(run_saved) + run_failed = Cardinality(Savable)
          /\ \A i \in 1..Len(run_saved) :
                \E k \in Savable : all_futures_data[k] = run_saved[i]

\* Binance failed and so did the record of its error, the records of Bybit
\* were merged and saved
C28_Witness ==
    /\ runpc = "exited"
    /\ ex_result["Binance"].raised
    /\ ~ex_result["Bybit"].raised
    /\ ex_result["Bybit"].value # <<>>
    /\ run_saved = ex_result["Bybit"].value

(***************************************************************************)
(* TradingDataAnalyzer.find_large_trades and Trade.from_api_response of    *)
(* src/test.py.                                                            *)
(***************************************************************************)
MIN_TRADE_VALUE_USD == 49000

\* the amount the module docstring gives for a large trade
DocumentedTradeValueUsd == 89000

\* Trade.from_api_response: value_usd = price * qty * quote_price_usd
from_api_response(data, quote_price_usd) ==
    [id |-> data.id, price |-> data.price, qty |-> data.qty,
     value_usd |-> data.price * data.qty * quote_price_usd]

\* the for loop of find_large_trades
find_large_trades(data, quote_price_usd) ==
    SelectSeq([i \in 1..Len(data) |-> from_api_response(data[i], quote_price_usd)],
              LAMBDA trade : trade.value_usd >= MIN_TRADE_VALUE_USD)

\* raw trades whose value is at, just under or between the two amounts
RawTrades ==
    [id : 1..MaxTradesData, price : {24500, 48999, 49000, 88999, 89000}, qty : {1, 2}]

\* the trades of one answer: their ids rise with their position
TradesData ==
    {ts \in SeqsUpTo(RawTrades, MaxTradesData) : \A i \in 1..Len(ts) : ts[i].id = i}

InitFind ==
    /\ ChunkIdle
    /\ CycleIdle
    /\ PageIdle
    /\ SemIdle
    /\ WaitIdle
    /\ CacheIdle
    /\ DbIdle /\ RLIdle /\ PairIdle /\ CollIdle /\ SaveIdle /\ ExtractIdle
    /\ FilterIdle /\ HttpIdle /\ GocIdle /\ RunIdle
    /\ trades_data \in TradesData
    /\ pair_quote_price_usd \in {1, 2}
    /\ found_trades = <<>>
    /\ findpc = "call"

FindLargeTrades ==
    /\ findpc = "call"
    /\ found_trades' = find_large_trades(trades_data, pair_quote_price_usd)
    /\ findpc' = "returned"
    /\ UNCHANGED <<trades_data, pair_quote_price_usd>>
    /\ UNCHANGED notFind

NextFind == FindLargeTrades

SpecFind == InitFind /\ [][NextFind]_vars

\* C29: every trade find_large_trades returns is worth 89,000 USD or more,
\* and every fetched trade worth that much is returned.
C29_OnlyTradesOfTheDocumentedValue ==
    findpc = "returned" =>
        /\ \A i \in 1..Len(found_trades) :
              found_trades[i].value_usd >= DocumentedTradeValueUsd
        /\ \A i \in 1..Len(trades_data) :
              from_api_response(trades_data[i], pair_quote_price_usd).value_usd
                    >= DocumentedTradeValueUsd
                 => \E j \in 1..Len(found_trades) : found_trades[j].id = trades_data[i].id

(***************************************************************************)
(* Database.get_cached_cmc_data and Database.save_cmc_cache of             *)
(* src/db/database.py, on the table cmc_cache.  The schema is not part of  *)
(* the sources; the key that ON DUPLICATE KEY UPDATE of save_cmc_cache     *)
(* speaks of is taken to be a unique key on symbol, the only column the    *)
(* two statements identify a row by, and last_updated of a new row to be   *)
(* the time of its INSERT.                                                 *)
(***************************************************************************)
CacheSymbols == {"BTC", "ETH"}

\* INTERVAL 10 MINUTE
CacheFreshMinutes == 10

\* a condition that still takes a row written exactly 10 minutes ago
FreshOrJustStale(last_updated, t) == last_updated >= t - CacheFreshMinutes

\* last_updated > DATE_SUB(NOW(), INTERVAL 10 MINUTE)
Fresh(last_updated, t) == last_updated > t - CacheFreshMinutes

\* SELECT * FROM cmc_cache WHERE symbol = %s AND last_updated > ...
SelectCached(table, s, t) ==
    {r \in table : r.symbol = s /\ Fresh(r.last_updated, t)}

\* cursor.fetchone(): a row of the result, None when it is empty
FetchOne(rows) == IF rows = {} THEN {None} ELSE {r.last_updated : r \in rows}

\* INSERT ... ON DUPLICATE KEY UPDATE ..., last_updated = CURRENT_TIMESTAMP
InsertOrUpdate(table, s, t) ==
    {r \in table : r.symbol # s} \cup {[symbol |-> s, last_updated |-> t]}

InitCache ==
    /\ ChunkIdle
    /\ CycleIdle
    /\ PageIdle
    /\ SemIdle
    /\ WaitIdle
    /\ DbIdle /\ RLIdle /\ PairIdle /\ CollIdle /\ SaveIdle /\ ExtractIdle
    /\ FilterIdle /\ HttpIdle /\ GocIdle /\ RunIdle /\ FindIdle
    /\ cache_now = 0
    /\ cmc_cache = {}
    /\ last_saved = [s \in CacheSymbols |-> None]
    /\ cache_get = <<>>

get_cached_cmc_data(s) ==
    /\ \E row \in FetchOne(SelectCached(cmc_cache, s, cache_now)) :
          cache_get' = <<[symbol |-> s, at |-> cache_now, row |-> row,
                          saved |-> last_saved[s]]>>
    /\ UNCHANGED <<cache_now, cmc_cache, last_saved>>
    /\ UNCHANGED notCache

save_cmc_cache(s) ==
    /\ cmc_cache' = InsertOrUpdate(cmc_cache, s, cache_now)
    /\ last_saved' = [last_saved EXCEPT ![s] = cache_now]
    /\ UNCHANGED <<cache_now, cache_get>>
    /\ UNCHANGED notCache

\* time passes between two calls
CacheTick ==
    /\ cache_now < MaxCacheTime
    /\ cache_now' = cache_now + CacheTickStep
    /\ UNCHANGED <<cmc_cache, last_saved, cache_get>>
    /\ UNCHANGED notCache

NextCache ==
    \/ \E s \in CacheSymbols : get_cached_cmc_data(s)
    \/ \E s \in CacheSymbols : save_cmc_cache(s)
    \/ CacheTick

SpecCache == InitCache /\ [][NextCache]_vars

SemClients == {"BinanceAPI", "BybitAPI", "CoinMarketCapAPI", "BinanceClient"}
SemTasks == 1..NSemTasks

\* whether the semaphore is taken by each attempt rather than by the call
AttemptScoped(c) == c # "BinanceClient"

\* stop_after_attempt(3); get_recent_trades retries while retry_count < 3
MaxAttempts(c) == IF AttemptScoped(c) THEN StopAfterAttempt ELSE MAX_RETRIES + 1

\* a semaphore that lets everybody in
SlotAlwaysFree == TRUE

\* Semaphore.acquire does not wait when the value is above zero
SlotFree == sem_value > 0

\* a block that gives its slot back only when it is left by a return
ExitReleasesOnReturnOnly(v, raised) == IF raised THEN v ELSE v + 1

\* async with: __aexit__ releases the slot however the block is left
Exit(v, raised) == v + 1

InitSem ==
    /\ ChunkIdle
    /\ CycleIdle
    /\ PageIdle
    /\ DbIdle /\ RLIdle /\ PairIdle /\ CollIdle /\ SaveIdle /\ ExtractIdle
    /\ FilterIdle /\ HttpIdle /\ GocIdle /\ RunIdle /\ FindIdle /\ CacheIdle
    /\ WaitIdle
    /\ sem_client \in SemClients
    /\ sem_value = SemLimit
    /\ sempc = [t \in SemTasks |-> "enter"]
    /\ sem_attempts = [t \in SemTasks |-> 0]

\* async with self.rate_limiter: / async with semaphore:
SemEnter(t) ==
    /\ sempc[t] = "enter"
    /\ SlotFree
    /\ sem_value' = sem_value - 1
    /\ sempc' = [sempc EXCEPT ![t] = "request"]
    /\ UNCHANGED <<sem_client, sem_attempts>>
    /\ UNCHANGED notSem

\* the request is answered and the block is left by its return
SemReturn(t) ==
    /\ sempc[t] = "request"
    /\ sem_value' = Exit(sem_value, FALSE)
    /\ sempc' = [sempc EXCEPT ![t] = "done"]
    /\ UNCHANGED <<sem_client, sem_attempts>>
    /\ UNCHANGED notSem

\* status 429: the sleep of the cool-down begins, inside the block
SemRateLimited(t) ==
    /\ sempc[t] = "request"
    /\ sempc' = [sempc EXCEPT ![t] = "cooldown"]
    /\ UNCHANGED <<sem_client, sem_value, sem_attempts>>
    /\ UNCHANGED notSem

\* the attempt ends with an exception: an error status, a failed request,
\* or the ClientError raised after the cool-down; another attempt follows
\* when the exception is one that is retried and this was not the last one
SemRaise(t) ==
    /\ sempc[t] \in {"request", "cooldown"}
    /\ \E retried \in IF sempc[t] = "cooldown" THEN {TRUE} ELSE BOOLEAN :
       LET last == ~retried \/ sem_attempts[t] + 1 >= MaxAttempts(sem_client)
       IN /\ sempc' = [sempc EXCEPT ![t] = IF last THEN "done" ELSE "backoff"]
          /\ sem_value' = IF AttemptScoped(sem_client) \/ last
                             THEN Exit(sem_value, TRUE)
                             ELSE sem_value
    /\ sem_attempts' = [sem_attempts EXCEPT ![t] = @ + 1]
    /\ UNCHANGED sem_client
    /\ UNCHANGED notSem

\* the wait before the next attempt is over
SemRetry(t) ==
    /\ sempc[t] = "backoff"
    /\ sempc' = [sempc EXCEPT ![t] = IF AttemptScoped(sem_client) THEN "enter"
                                      ELSE "request"]
    /\ UNCHANGED <<sem_client, sem_value, sem_attempts>>
    /\ UNCHANGED notSem

NextSem ==
    \/ \E t \in SemTasks : SemEnter(t)
    \/ \E t \in SemTasks : SemReturn(t)
    \/ \E t \in SemTasks : SemRateLimited(t)
    \/ \E t \in SemTasks : SemRaise(t)
    \/ \E t \in SemTasks : SemRetry(t)

SpecSem == InitSem /\ [][NextSem]_vars

\* C32: a client never has more requests in flight than its semaphore has
\* slots, and the monitor never has more pairs being fetched than that.
C32_InFlightWithinTheLimit ==
    /\ Cardinality({t \in SemTasks : sempc[t] \in {"request", "cooldown"}}) <= SemLimit
    /\ sem_client = "BinanceClient" =>
          Cardinality({t \in SemTasks : sempc[t] \in {"request", "cooldown", "backoff"}})
              <= SemLimit

\* every slot is taken and a task waits to enter
C32_Witness ==
    /\ Cardinality({t \in SemTasks : sempc[t] \in {"request", "cooldown"}}) = SemLimit
    /\ \E t \in SemTasks : sempc[t] = "enter"

\* C39: for the three API clients the free slots and the attempts in
\* progress, cool-downs included, always add up to the limit: a slot is held
\* through the cool-down, not during the wait between attempts, and every
\* slot is free when every call is over.
C39_EverySlotIsReleased ==
    AttemptScoped(sem_client) =>
        /\ sem_value >= 0
        /\ sem_value + Cardinality({t \in SemTasks : sempc[t] \in {"request", "cooldown"}})
              = SemLimit
        /\ (\A t \in SemTasks : sempc[t] = "done") => sem_value = SemLimit

\* one task sleeps through a cool-down with its slot, another waits for its
\* next attempt without one, a third is over after its last attempt failed
C39_Witness ==
    /\ AttemptScoped(sem_client)
    /\ \E t1, t2, t3 \in SemTasks :
          /\ sempc[t1] = "cooldown"
          /\ sempc[t2] = "backoff"
          /\ sempc[t3] = "done" /\ sem_attempts[t3] = StopAfterAttempt
    /\ sem_value = SemLimit - 1

(***************************************************************************)
(* BybitAPI.get_instruments_info: the pages of /v5/market/instruments-info *)
(* are fetched one after another, each request carrying the cursor of the  *)
(* page before it.                                                         *)
(***************************************************************************)
\* data.get('list', []): the instruments of a page
PageLists == {<<>>} \cup {<<i>> : i \in 1..MaxInstruments}
                 \cup {<<i, j>> : i, j \in 1..MaxInstruments}

\* data.get('nextPageCursor'): None when the key is absent, or a string
PageCursors == {NoneStr, <<>>, <<"c", "1">>, <<"c", "2">>}

\* a page put in front of the ones before it
ExtendInFront(list, more) == more \o list

\* all_instruments.extend(instruments)
Extend(list, more) == list \o more

\* the lists of the pages, one after another
RECURSIVE PagesInOrder(_)
PagesInOrder(ps) ==
    IF ps = <<>> THEN <<>> ELSE Head(ps).list \o PagesInOrder(Tail(ps))

InitPage ==
    /\ ChunkIdle
    /\ CycleIdle
    /\ DbIdle /\ RLIdle /\ PairIdle /\ CollIdle /\ SaveIdle /\ ExtractIdle
    /\ FilterIdle /\ HttpIdle /\ GocIdle /\ RunIdle /\ FindIdle /\ CacheIdle
    /\ WaitIdle /\ SemIdle
    /\ all_instruments = <<>>
    /\ cursor = NoneStr
    /\ page_sent = NoneStr
    /\ pages = <<>>
    /\ pagepc = "loop"
    /\ page_ret = <<>>

\* params = {...}; if cursor: params['cursor'] = cursor; the request is sent
PageRequest ==
    /\ pagepc = "loop"
    /\ Len(pages) < MaxPages
    /\ page_sent' = IF FalsyStr(cursor) THEN NoneStr ELSE cursor
    /\ pagepc' = "request"
    /\ UNCHANGED <<all_instruments, cursor, pages, page_ret>>
    /\ UNCHANGED notPage

\* data = await self._make_request(...): the page is added, its cursor kept;
\* if not cursor: break; return all_instruments
PageReceived ==
    /\ pagepc = "request"
    /\ \E list \in PageLists, next \in PageCursors :
          /\ all_instruments' = Extend(all_instruments, list)
          /\ cursor' = next
          /\ pages' = Append(pages, [list |-> list, next |-> next])
          /\ IF FalsyStr(next)
                THEN /\ pagepc' = "returned"
                     /\ page_ret' = all_instruments'
                ELSE /\ pagepc' = "loop"
                     /\ UNCHANGED page_ret
    /\ UNCHANGED page_sent
    /\ UNCHANGED notPage

\* _make_request raises after its attempts: the exception leaves the call
PageRaises ==
    /\ pagepc = "request"
    /\ pagepc' = "raised"
    /\ UNCHANGED <<all_instruments, cursor, page_sent, pages, page_ret>>
    /\ UNCHANGED notPage

NextPage == PageRequest \/ PageReceived \/ PageRaises

SpecPage == InitPage /\ [][NextPage]_vars

\* C33: the first request carries no cursor and every later one the cursor of
\* the page before it; a page is requested only after the page before it has
\* come with a cursor; the call returns at the first page without a cursor,
\* and returns the instruments of all pages in page order.
C33_PagesFollowTheCursor ==
    /\ pagepc = "request" =>
          page_sent = IF pages = <<>> THEN NoneStr ELSE pages[Len(pages)].next
    /\ \A k \in 1..(Len(pages) - 1) : ~FalsyStr(pages[k].next)
    /\ pagepc \in {"loop", "request"} =>
          pages = <<>> \/ ~FalsyStr(pages[Len(pages)].next)
    /\ pages # <<>> /\ FalsyStr(pages[Len(pages)].next) =>
          /\ pagepc = "returned"
          /\ page_ret = PagesInOrder(pages)

\* the call has returned after three pages, the last with an empty cursor,
\* and the pages did not all hold the same instruments
C33_Witness ==
    /\ pagepc = "returned"
    /\ Len(pages) = 3
    /\ pages[3].next = <<>>
    /\ pages[1].list = <<2>> /\ pages[2].list = <<1, 2>>
    /\ pages[1].next # pages[2].next

(***************************************************************************)
(* The monitoring cycles of main (src/test.py): run_monitoring_cycle makes *)
(* a RateLimiter of its own, and main starts the next cycle one second     *)
(* after a cycle has returned.                                             *)
(***************************************************************************)
\* await asyncio.sleep(1) between two cycles, pause_minutes being 0
CyclePause == 1

InitCycles ==
    /\ ChunkIdle
    /\ DbIdle /\ PairIdle /\ CollIdle /\ SaveIdle /\ ExtractIdle /\ FilterIdle
    /\ HttpIdle /\ GocIdle /\ RunIdle /\ FindIdle /\ CacheIdle /\ WaitIdle
    /\ SemIdle /\ PageIdle
    /\ RLIdle
    /\ cycle_count = 1

\* A cycle returns when none of its tasks is inside acquire any more; main
\* sleeps its pause and calls run_monitoring_cycle again, which builds
\* RateLimiter(MAX_WEIGHT_PER_MINUTE): the new limiter's log is empty.  The
\* requests sent in the last 60 seconds stay sent.
NewCycle ==
    /\ \A t \in Tasks : rlpc[t] = "idle"
    /\ cycle_count < MaxCycles
    /\ now + CyclePause <= MaxTime
    /\ cycle_count' = cycle_count + 1
    /\ now' = now + CyclePause
    /\ requests' = <<>>
    /\ admitted' = SelectSeq(admitted, LAMBDA e : now' - e.ts < Window)
    /\ UNCHANGED <<lock, rlpc, weight, current_time, current_weight, wake>>
    /\ UNCHANGED notCycle

NextCycles ==
    \/ NextLimiter
    \/ NewCycle

SpecCycles == InitCycles /\ [][NextCycles]_vars

\* C38: over all cycles, the weights of the requests sent less than 60 seconds
\* ago never sum to more than MAX_WEIGHT_PER_MINUTE.
C38_WindowWithinBudgetAcrossCycles ==
    SumWeights(admitted) <= Budget

(***************************************************************************)
(* RateLimiter.acquire over an unbounded time.  The clock is read relative *)
(* to the present: instead of `now` moving forward, every time on record   *)
(* moves back by the same amount.  An entry of the log that has reached    *)
(* the age of the window is dropped by the next pruning whatever its age,  *)
(* and a sleep that is over stays over, so both are kept at those values.  *)
(***************************************************************************)
Older(ts) == IF ts - TickStep < now - Window THEN now - Window ELSE ts - TickStep

\* Time passes only while every task is outside acquire or asleep: a task
\* that can take a step takes it at once.
Elapse ==
    /\ lock = NoTask
    /\ \A t \in Tasks : rlpc[t] = "idle" \/ (rlpc[t] = "sleep" /\ wake[t] > now)
    /\ requests' = [i \in 1..Len(requests) |->
                       [requests[i] EXCEPT !.ts = Older(@)]]
    /\ admitted' = SelectSeq([i \in 1..Len(admitted) |->
                                 [admitted[i] EXCEPT !.ts = Older(@)]],
                             LAMBDA e : now - e.ts < Window)
    /\ wake' = [t \in Tasks |->
                   IF rlpc[t] = "sleep" /\ wake[t] - TickStep > now
                      THEN wake[t] - TickStep
                      ELSE IF rlpc[t] = "sleep" THEN now ELSE wake[t]]
    /\ UNCHANGED <<now, lock, rlpc, weight, current_time, current_weight>>
    /\ UNCHANGED first_time
    /\ UNCHANGED notRl

\* The event loop runs one task at a time, and the body of the lock has no
\* await: a pass through the loop of acquire, from taking the lock to leaving
\* it, is over before another task gets to run.
NobodyInside == \A u \in Tasks : rlpc[u] \in {"idle", "sleep"}

\* a task calls acquire(w) when it gets to run
Enter(t, w) == NobodyInside /\ RLCall(t, w)

\* a task whose sleep is over gets to run
Resume(t) == NobodyInside /\ RLWake(t)

NextLimiterFair ==
    \/ \E t \in Tasks, w \in Weights : Enter(t, w)
    \/ \E t \in Tasks : RLLock(t)
    \/ \E t \in Tasks : RLPrune(t)
    \/ \E t \in Tasks : RLAdmit(t)
    \/ \E t \in Tasks : RLReject(t)
    \/ \E t \in Tasks : Resume(t)
    \/ Elapse

\* The event loop runs every task that is ready: a pass that has begun is
\* finished, a task whose sleep is over gets its turn however many calls the
\* other tasks make, and time goes on.  Nothing makes a task call acquire.
FairScheduling ==
    /\ \A t \in Tasks :
          /\ WF_vars(RLLock(t))
          /\ WF_vars(RLPrune(t))
          /\ WF_vars(RLAdmit(t))
          /\ WF_vars(RLReject(t))
          /\ SF_vars(Resume(t))
    /\ SF_vars(Elapse)

SpecLimiterFair == InitLimiter /\ [][NextLimiterFair]_vars /\ FairScheduling

\* C36: every call of acquire with a weight within the budget returns.
C36_EveryCallReturns ==
    \A t \in Tasks :
        (rlpc[t] # "idle" /\ weight[t] <= Budget) ~> (rlpc[t] = "idle")

(***************************************************************************)
(* CoinMarketCapAPI.get_tokens_data: the symbols are de-duplicated, their  *)
(* quotes are fetched chunk by chunk by get_quotes_latest, and a chunk      *)
(* request that raises ends the whole call with an empty dict.             *)
(***************************************************************************)
ChunkPoolList == <<BTC, ETH, BNB, USDT, USDC>>
ChunkPool == {ChunkPoolList[i] : i \in 1..MaxChunkSymbols}

\* the quote of a symbol the provider knows
ChunkQuotes == {[price |-> MaxAmount, volume_24h |-> MaxAmount, market_cap |-> MaxAmount]}

\* set(symbol.upper() for symbol in symbols if symbol); the symbols of the
\* model are in upper case already
UniqueSymbols(symbols) == {symbols[i] : i \in 1..Len(symbols)} \ {<<>>}

\* list(set(...)): the elements in some order
Orderings(S) ==
    {f \in [1..Cardinality(S) -> S] : \A i, j \in 1..Cardinality(S) : f[i] = f[j] => i = j}

\* chunks = [symbols[i:i+200] for i in range(0, len(symbols), 200)]
NChunks(n) == (n + ChunkSize - 1) \div ChunkSize
ChunkAt(us, k) ==
    {us[i] : i \in {j \in 1..Len(us) : (k - 1) * ChunkSize < j /\ j <= k * ChunkSize}}

\* all_data.update(data)
DictUpdate(d, more) ==
    [s \in DOMAIN d \cup DOMAIN more |-> IF s \in DOMAIN more THEN more[s] ELSE d[s]]

\* result[symbol] = self.extract_token_data(symbol, quotes_data[symbol]) for
\* the symbols that are in quotes_data
TokensData(us, quotes_data) ==
    [s \in {us[i] : i \in 1..Len(us)} \cap DOMAIN quotes_data |->
        extract_token_data(quotes_data[s])]

\* a failure that keeps what the chunks before it brought
TokensDataOfFetchedChunks(us, so_far) == TokensData(us, so_far)

\* except Exception: return {}
TokensDataAfterFailure(us, so_far) == <<>>

\* the record of one pair whose token is BTC
ChunkRecord == CollectPairDataWith("Binance", BTCUSDT, {}, MaxAmount)

InitChunks ==
    /\ DbIdle /\ RLIdle /\ PairIdle /\ CollIdle /\ SaveIdle /\ ExtractIdle
    /\ FilterIdle /\ HttpIdle /\ GocIdle /\ RunIdle /\ FindIdle /\ CacheIdle
    /\ WaitIdle /\ SemIdle /\ PageIdle /\ CycleIdle
    /\ symbols_arg \in SeqsUpTo(ChunkPool \cup {<<>>}, MaxChunkSymbols + 1)
    /\ unique_symbols = <<>>
    /\ chunk_no = 0
    /\ quotes_all = <<>>
    /\ chunkpc = "call"
    /\ tokens_result = <<>>
    /\ chunk_failed = FALSE
    /\ chunk_row = <<>>

\* get_tokens_data: unique_symbols; an empty list returns {} at once
GetTokensData ==
    /\ chunkpc = "call"
    /\ IF UniqueSymbols(symbols_arg) = {}
          THEN /\ chunkpc' = "returned"
               /\ UNCHANGED unique_symbols
          ELSE /\ unique_symbols' \in Orderings(UniqueSymbols(symbols_arg))
               /\ chunkpc' = "loop"
    /\ UNCHANGED <<symbols_arg, chunk_no, quotes_all, tokens_result, chunk_failed,
                   chunk_row>>
    /\ UNCHANGED notChunk

\* get_quotes_latest: the request of the next chunk is answered, with the
\* quotes of the symbols the provider knows; after the last chunk
\* get_tokens_data builds its result
ChunkFetched ==
    /\ chunkpc = "loop"
    /\ \E known \in SUBSET ChunkAt(unique_symbols, chunk_no + 1) :
          \E data \in [known -> ChunkQuotes] :
             quotes_all' = DictUpdate(quotes_all, data)
    /\ chunk_no' = chunk_no + 1
    /\ IF chunk_no + 1 = NChunks(Len(unique_symbols))
          THEN /\ tokens_result' = TokensData(unique_symbols, quotes_all')
               /\ chunkpc' = "returned"
          ELSE UNCHANGED <<tokens_result, chunkpc>>
    /\ UNCHANGED <<symbols_arg, unique_symbols, chunk_failed, chunk_row>>
    /\ UNCHANGED notChunk

\* _make_request raises after its attempts: get_quotes_latest logs and
\* raises again, get_tokens_data logs and returns {}
ChunkRaises ==
    /\ chunkpc = "loop"
    /\ chunk_failed' = TRUE
    /\ tokens_result' = TokensDataAfterFailure(unique_symbols, quotes_all)
    /\ chunkpc' = "returned"
    /\ UNCHANGED <<symbols_arg, unique_symbols, chunk_no, quotes_all, chunk_row>>
    /\ UNCHANGED notChunk

\* collect_cmc_data adds '_btc_price' when there is one and returns;
\* process_and_save_data builds the row of a record from it and saves it
SaveSnapshot ==
    /\ chunkpc = "returned"
    /\ \E btc_price \in {<<>>, <<MaxAmount>>} :
          chunk_row' = <<FuturesDataRow(ChunkRecord,
                                        [quotes |-> tokens_result, btc_price |-> btc_price],
                                        1)>>
    /\ chunkpc' = "saved"
    /\ UNCHANGED <<symbols_arg, unique_symbols, chunk_no, quotes_all, tokens_result,
                   chunk_failed>>
    /\ UNCHANGED notChunk

NextChunks ==
    \/ GetTokensData
    \/ ChunkFetched
    \/ ChunkRaises
    \/ SaveSnapshot

SpecChunks == InitChunks /\ [][NextChunks]_vars

\* C40: get_tokens_data returns either the data of the symbols quoted in all
\* the chunks of the de-duplicated list, every chunk having been fetched, or,
\* when a chunk request failed, an empty dict whatever was fetched before; the
\* snapshot is saved all the same, without price, volume and capitalisation
\* in the latter case.
C40_AllChunksOrNothing ==
    /\ chunkpc \in {"returned", "saved"} =>
          IF chunk_failed
             THEN DOMAIN tokens_result = {}
             ELSE /\ chunk_no = NChunks(Cardinality(UniqueSymbols(symbols_arg)))
                  /\ DOMAIN tokens_result = UniqueSymbols(symbols_arg) \cap DOMAIN quotes_all
                  /\ \A s \in DOMAIN tokens_result :
                        tokens_result[s] = extract_token_data(quotes_all[s])
    /\ chunkpc = "saved" =>
          /\ chunk_row # <<>>
          /\ chunk_failed =>
                /\ chunk_row[1].price_usd = None
                /\ chunk_row[1].volume_usd = None
                /\ chunk_row[1].market_cap_usd = None

\* the second chunk failed after the first had brought the quote of BTC: the
\* result is empty and the row is saved without the price
C40_Witness ==
    /\ chunkpc = "saved"
    /\ chunk_failed
    /\ chunk_no = 1
    /\ BTC \in DOMAIN quotes_all
    /\ quotes_all[BTC].price = MaxAmount
    /\ Len(symbols_arg) > Len(unique_symbols)
    /\ chunk_row[1].price_usd = None
    /\ chunk_row[1].open_interest_contracts # None

=============================================================================
